---- MODULE Spec2Model ----
(***************************************************************************)
(* A model of the CPU fluid solver InteractiveFluid                         *)
(* (src/src/fluid_interactive.rs): a width x height grid holding velocity,  *)
(* dye, their start-of-step snapshots, pressure and divergence, driven by   *)
(* new / add_dye / add_force / step.                                        *)
(*                                                                          *)
(* Every buffer cell is an f32.  An f32 is held as a signed integer whose   *)
(* magnitude is the IEEE-754 binary32 bit pattern of the magnitude of the   *)
(* value (so integer order is numeric order) and whose sign is the sign of  *)
(* the value.  The arithmetic below is binary32 arithmetic with             *)
(* round-to-nearest-even, subnormals, infinities and NaN.  Two things are   *)
(* merged: -0.0 with +0.0 (Rust's == does not tell them apart, and the      *)
(* solver never divides by a zero it computed), and all NaN payloads into   *)
(* one NaN.                                                                 *)
(***************************************************************************)
EXTENDS Integers, Sequences, FiniteSets, TLC

\* ------------------------------------------------------------------ f32

\* Powers of two, 2^0 .. 2^30.
P2 == [i \in 0..30 |-> 2^i]

\* binary32: 23 stored fraction bits, 24-bit significand, smallest exponent
\* of the unit in the last place 2^-149, largest 2^104.
FracBits == 23
SigBits == 24
MinExp == -149
MaxExp == 104

Inf == 2139095040
NaN == 2139095041

Abs(k) == IF k < 0 THEN -k ELSE k
Sgn(k) == IF k < 0 THEN -1 ELSE 1

\* Significand and exponent of a finite magnitude pattern k: value = Mant * 2^Expo.
Mant(k) == IF k \div P2[FracBits] = 0 THEN k % P2[FracBits]
           ELSE (k % P2[FracBits]) + P2[FracBits]
Expo(k) == IF k \div P2[FracBits] = 0 THEN MinExp
           ELSE (k \div P2[FracBits]) + MinExp - 1

\* Number of bits of m, 0 <= m < 2^31: n counts the bits already shifted out.
Bits4(m, n) ==
  n + (IF m < 4 THEN (IF m < 2 THEN m ELSE 2) ELSE (IF m < 8 THEN 3 ELSE 4))
Bits8(m, n) ==
  Bits4(IF m < 16 THEN m ELSE m \div 16, IF m < 16 THEN n ELSE n + 4)
Bits16(m, n) ==
  Bits8(IF m < 256 THEN m ELSE m \div 256, IF m < 256 THEN n ELSE n + 8)
BitLen(m) ==
  Bits16(IF m < 65536 THEN m ELSE m \div 65536, IF m < 65536 THEN 0 ELSE 16)

\* Rounding, last step: exponent e1 and significand q packed into a pattern.
RoundBits(sg, e1, q) ==
  IF e1 > MaxExp THEN sg * Inf
  ELSE IF ((e1 - MinExp) * P2[FracBits]) + q >= Inf THEN sg * Inf
  ELSE sg * (((e1 - MinExp) * P2[FracBits]) + q)

\* Rounding to nearest, ties to even: q0 is the kept part, r the sh bits
\* dropped, st whether more was dropped below them.
RoundTie(sg, st, e1, sh, q0, r) ==
  RoundBits(sg, e1,
            IF sh > 0 /\ sh <= 31
               /\ (r > P2[sh - 1] \/ (r = P2[sh - 1] /\ (st \/ (q0 % 2) = 1)))
            THEN q0 + 1 ELSE q0)

\* M shifted right by sh to the result's unit in the last place 2^e1.
RoundShift(sg, M, st, e1, sh) ==
  RoundTie(sg, st, e1, sh,
           IF sh <= 0 THEN M * P2[-sh] ELSE IF sh >= 31 THEN 0 ELSE M \div P2[sh],
           IF sh <= 0 THEN 0 ELSE IF sh >= 31 THEN M ELSE M % P2[sh])

RoundExp(sg, M, E, st, e1) == RoundShift(sg, M, st, e1, e1 - E)

\* The f32 nearest to sg * (M * 2^E), ties to even; st says that the exact
\* value lies strictly between M * 2^E and (M+1) * 2^E.
RoundPack(sg, M, E, st) ==
  IF M = 0 THEN 0
  ELSE RoundExp(sg, M, E, st,
                IF E + BitLen(M) - SigBits < MinExp THEN MinExp
                ELSE E + BitLen(M) - SigBits)

FNeg(a) == IF a = NaN THEN NaN ELSE -a
FAbs(a) == IF a = NaN THEN NaN ELSE Abs(a)

\* Addition, last step: A and B are the two significands on the unit 2^(eb-6).
AddSum(big, sml, eb, A, B, st) ==
  RoundPack(Sgn(big),
            IF (big < 0) = (sml < 0) THEN A + B
            ELSE IF st THEN A - B - 1 ELSE A - B,
            eb - 6, st)

\* The smaller operand's significand ms shifted right by the exponent
\* difference d, six guard bits kept.
AddAligned(big, sml, mb, eb, ms, d) ==
  AddSum(big, sml, eb, mb * 64,
         IF d <= 6 THEN ms * P2[6 - d]
         ELSE IF d >= 31 THEN 0 ELSE ms \div P2[d - 6],
         d > 6 /\ (IF d >= 31 THEN TRUE ELSE (ms % P2[d - 6]) # 0))

AddOrdered(big, sml) ==
  AddAligned(big, sml, Mant(Abs(big)), Expo(Abs(big)), Mant(Abs(sml)),
             Expo(Abs(big)) - Expo(Abs(sml)))

\* a + b.
FAdd(a, b) ==
  IF a = NaN \/ b = NaN THEN NaN
  ELSE IF Abs(a) = Inf \/ Abs(b) = Inf
  THEN (IF Abs(a) = Inf /\ Abs(b) = Inf THEN (IF a = b THEN a ELSE NaN)
        ELSE IF Abs(a) = Inf THEN a ELSE b)
  ELSE IF a = 0 THEN b
  ELSE IF b = 0 THEN a
  ELSE AddOrdered(IF Abs(a) >= Abs(b) THEN a ELSE b,
                  IF Abs(a) >= Abs(b) THEN b ELSE a)

\* a - b.
FSub(a, b) == FAdd(a, FNeg(b))

\* Multiplication: the 48-bit product hi * 2^24 + lo cut to at most 31 bits.
MulShift(sg, e, hi, lo, s) ==
  RoundPack(sg, (hi * P2[SigBits - s]) + (lo \div P2[s]), e + s,
            (lo % P2[s]) # 0)

MulNorm(sg, e, hi, lo) ==
  MulShift(sg, e, hi, lo, IF BitLen(hi) <= 7 THEN 0 ELSE BitLen(hi) - 7)

MulWide(sg, e, h, loS) ==
  MulNorm(sg, e, h + (loS \div P2[SigBits]), loS % P2[SigBits])

MulCross(sg, e, hh, mid, ll) ==
  MulWide(sg, e, hh + (mid \div 4096), ll + ((mid % 4096) * 4096))

\* The product of two 24-bit significands by 12-bit limbs.
MulLimbs(sg, e, ma, mb) ==
  MulCross(sg, e, (ma \div 4096) * (mb \div 4096),
           ((ma \div 4096) * (mb % 4096)) + ((ma % 4096) * (mb \div 4096)),
           (ma % 4096) * (mb % 4096))

\* a * b.
FMul(a, b) ==
  IF a = NaN \/ b = NaN THEN NaN
  ELSE IF Abs(a) = Inf \/ Abs(b) = Inf
  THEN (IF a = 0 \/ b = 0 THEN NaN ELSE Sgn(a) * Sgn(b) * Inf)
  ELSE IF a = 0 \/ b = 0 THEN 0
  ELSE MulLimbs(Sgn(a) * Sgn(b), Expo(Abs(a)) + Expo(Abs(b)), Mant(Abs(a)),
                Mant(Abs(b)))

\* One stage of long division: seven more quotient bits.
DivStage(qr, mb) == <<qr[1] * 128 + ((qr[2] * 128) \div mb), (qr[2] * 128) % mb>>

DivRound(sg, e, q4) == RoundPack(sg, q4[1], e, q4[2] # 0)

\* Long division of two normalised 24-bit significands to 29 quotient bits.
DivLong(sg, e, ma, mb) ==
  DivRound(sg, e,
           DivStage(DivStage(DivStage(DivStage(<<ma \div mb, ma % mb>>, mb),
                                      mb), mb), mb))

DivNorm(sg, e, ma0, mb0, sa, sb) ==
  DivLong(sg, e - sa + sb, ma0 * P2[sa], mb0 * P2[sb])

DivMant(sg, e, ma0, mb0) ==
  DivNorm(sg, e, ma0, mb0, SigBits - BitLen(ma0), SigBits - BitLen(mb0))

\* a / b.
FDiv(a, b) ==
  IF a = NaN \/ b = NaN THEN NaN
  ELSE IF Abs(a) = Inf THEN (IF Abs(b) = Inf THEN NaN ELSE Sgn(a) * Sgn(b) * Inf)
  ELSE IF Abs(b) = Inf THEN 0
  ELSE IF b = 0 THEN (IF a = 0 THEN NaN ELSE Sgn(a) * Inf)
  ELSE IF a = 0 THEN 0
  ELSE DivMant(Sgn(a) * Sgn(b), Expo(Abs(a)) - Expo(Abs(b)) - 28,
               Mant(Abs(a)), Mant(Abs(b)))

FLt(a, b) == a # NaN /\ b # NaN /\ a < b
FLe(a, b) == a # NaN /\ b # NaN /\ a <= b
FGt(a, b) == FLt(b, a)

\* f32::max and f32::min: a NaN operand is ignored.
FMax(a, b) == IF a = NaN THEN b ELSE IF b = NaN THEN a ELSE IF a >= b THEN a ELSE b
FMin(a, b) == IF a = NaN THEN b ELSE IF b = NaN THEN a ELSE IF a <= b THEN a ELSE b

\* `n as f32` for an integer n, |n| < 2^31.
FromInt(n) == RoundPack(Sgn(n), Abs(n), 0, FALSE)

\* The integer part of m * 2^e (toward zero), and whether a fraction was
\* dropped.
Shifted(m, e) ==
  IF e >= 0 THEN m * P2[e] ELSE IF -e >= 31 THEN 0 ELSE m \div P2[-e]
Dropped(m, e) ==
  IF e >= 0 THEN FALSE ELSE IF -e >= 31 THEN m # 0 ELSE (m % P2[-e]) # 0

\* The same of a finite magnitude pattern k below 2^31.
Trunc(k) == Shifted(Mant(k), Expo(k))
HasFrac(k) == Dropped(Mant(k), Expo(k))

\* 2^31 as an f32 pattern: from here on a cast to a machine integer saturates.
TwoTo31 == 1325400064
IntMax == 2147483647

\* The integer f32::floor(a) of a finite a below 2^31 in magnitude.
FloorInt(a) ==
  IF a >= 0 THEN Trunc(a) ELSE -(Trunc(-a) + (IF HasFrac(-a) THEN 1 ELSE 0))

\* f32::floor.
FFloor(a) ==
  IF a = NaN \/ Abs(a) = Inf \/ Abs(a) >= TwoTo31 THEN a
  ELSE FromInt(FloorInt(a))

\* `a as usize`: NaN and negatives give 0, the cast saturates above; every
\* value of 2^31 or more is held as IntMax, which is beyond every buffer.
ToUsize(a) ==
  IF a = NaN \/ a <= 0 THEN 0
  ELSE IF a >= TwoTo31 THEN IntMax
  ELSE Trunc(a)

\* `a as i32`: NaN gives 0, truncation toward zero, saturating at i32::MAX
\* and at i32::MIN = -2^31.
ToI32(a) ==
  IF a = NaN THEN 0
  ELSE IF a >= TwoTo31 THEN IntMax
  ELSE IF a <= -TwoTo31 THEN -IntMax - 1
  ELSE IF a >= 0 THEN Trunc(a) ELSE -Trunc(-a)

\* 2^23 as an f32 pattern: from here on every f32 is an integer.
TwoTo23 == 1258291200

\* f32::round of a magnitude below 2^23: half-way cases away from zero.
RoundMag(k) ==
  FromInt(Trunc(k) + (IF FSub(k, FromInt(Trunc(k))) >= 1056964608 THEN 1
                      ELSE 0))

\* f32::round.
FRound(a) ==
  IF a = NaN \/ Abs(a) >= TwoTo23 THEN a ELSE Sgn(a) * RoundMag(Abs(a))

\* Bits 2j+1 and 2j of the 48-bit radicand hi * 2^24 + lo.
SqrtPair(hi, lo, j) ==
  IF j >= 12 THEN (hi \div P2[2 * (j - 12)]) % 4 ELSE (lo \div P2[2 * j]) % 4

\* The square root of hi * 2^24 + lo rounded to the nearest integer, a pair
\* of bits at a time: r is the remainder and y the root so far.
RECURSIVE SqrtDigits(_, _, _, _, _)
SqrtBit(hi, lo, j, r1, y) ==
  IF r1 >= 4 * y + 1 THEN SqrtDigits(hi, lo, j - 1, r1 - (4 * y + 1), 2 * y + 1)
  ELSE SqrtDigits(hi, lo, j - 1, r1, 2 * y)
SqrtDigits(hi, lo, j, r, y) ==
  IF r = r /\ y = y /\ j < 0 THEN (IF r > y THEN y + 1 ELSE y)
  ELSE SqrtBit(hi, lo, j, 4 * r + SqrtPair(hi, lo, j), y)

\* The root of m * 2^e for a significand m of 24 bits.
SqrtEven(m, e) ==
  IF e % 2 = 0
  THEN RoundPack(1, SqrtDigits(m, 0, 23, 0, 0), (e - 24) \div 2, FALSE)
  ELSE RoundPack(1, SqrtDigits(m \div 2, (m % 2) * P2[23], 23, 0, 0),
                 (e - 23) \div 2, FALSE)

\* f32::sqrt, correctly rounded.
FSqrt(a) ==
  IF a = NaN \/ a < 0 THEN NaN
  ELSE IF a = 0 \/ a = Inf THEN a
  ELSE SqrtEven(Mant(a) * P2[SigBits - BitLen(Mant(a))],
                Expo(a) - (SigBits - BitLen(Mant(a))))

\* ------------------------------------------------------------ literals
\* The f32 literals of the source, as patterns.

\* 0.0, 1.0, 4.0, 0.5
Zero == 0
One == 1065353216
Four == 1082130432
Half == 1056964608
\* dt: 0.1, viscosity: 0.001, dye_diffusion: 0.0001 (InteractiveFluid::new).
DT == 1036831949
VISCOSITY == 981668463
DYE_DIFFUSION == 953267991
\* 1e-10, the smallest channel total that is rescaled.
MassEps == 786163455
\* project_velocity: convergence_threshold = 0.001, max_iterations = 20, and
\* the early exit needs iter > 5.
convergence_threshold == 981668463
max_iterations == 20
MinIter == 5
\* Sweeps of diffuse_velocity and of diffuse_dye.
VelocitySweeps == 4
DyeSweeps == 2

\* --------------------------------------------------------------- grid

Zeros(n) == [i \in 0..(n - 1) |-> Zero]

\* `n as usize` for an i32 n: a negative n wraps to 2^64 + n, which is held
\* as IntMax: it is beyond every width and height.
I32ToUsize(n) == IF n < 0 THEN IntMax ELSE n

\* The interior cells y in 1..height-1, x in 1..width-1, in the order the
\* nested loops visit them.
InteriorCells(w, h) ==
  IF w < 3 \/ h < 3 THEN <<>>
  ELSE [k \in 1..((w - 2) * (h - 2)) |->
          ((((k - 1) \div (w - 2)) + 1) * w) + ((k - 1) % (w - 2)) + 1]

InteriorSet(w, h) == {InteriorCells(w, h)[k] : k \in 1..Len(InteriorCells(w, h))}

\* A variant of new that takes the height for the width.
new_transposed(w, h) ==
  [width |-> h, height |-> w,
   velocity_x |-> Zeros(w * h), velocity_y |-> Zeros(w * h),
   velocity_x_prev |-> Zeros(w * h), velocity_y_prev |-> Zeros(w * h),
   dye_r |-> Zeros(w * h), dye_g |-> Zeros(w * h), dye_b |-> Zeros(w * h),
   dye_r_prev |-> Zeros(w * h), dye_g_prev |-> Zeros(w * h),
   dye_b_prev |-> Zeros(w * h),
   pressure |-> Zeros(w * h), divergence |-> Zeros(w * h),
   dt |-> DT, viscosity |-> VISCOSITY, dye_diffusion |-> DYE_DIFFUSION,
   panicked |-> FALSE]

\* InteractiveFluid::new: no check of the dimensions.
new(w, h) ==
  [width |-> w, height |-> h,
   velocity_x |-> Zeros(w * h), velocity_y |-> Zeros(w * h),
   velocity_x_prev |-> Zeros(w * h), velocity_y_prev |-> Zeros(w * h),
   dye_r |-> Zeros(w * h), dye_g |-> Zeros(w * h), dye_b |-> Zeros(w * h),
   dye_r_prev |-> Zeros(w * h), dye_g_prev |-> Zeros(w * h),
   dye_b_prev |-> Zeros(w * h),
   pressure |-> Zeros(w * h), divergence |-> Zeros(w * h),
   dt |-> DT, viscosity |-> VISCOSITY, dye_diffusion |-> DYE_DIFFUSION,
   panicked |-> FALSE]

\* A variant of add_dye that stores the colour instead of adding it.
add_dye_assign(s, x, y, color) ==
  IF x < s.width /\ y < s.height
  THEN [s EXCEPT !.dye_r[y * s.width + x] = color[1],
                 !.dye_g[y * s.width + x] = color[2],
                 !.dye_b[y * s.width + x] = color[3]]
  ELSE s

\* A variant of add_dye that adds the red amount to the green channel too.
add_dye_swapped(s, x, y, color) ==
  IF x < s.width /\ y < s.height
  THEN [s EXCEPT !.dye_r[y * s.width + x] = FAdd(@, color[1]),
                 !.dye_g[y * s.width + x] = FAdd(@, color[1]),
                 !.dye_b[y * s.width + x] = FAdd(@, color[3])]
  ELSE s

\* InteractiveFluid::add_dye.
add_dye(s, x, y, color) ==
  IF x < s.width /\ y < s.height
  THEN [s EXCEPT !.dye_r[y * s.width + x] = FAdd(@, color[1]),
                 !.dye_g[y * s.width + x] = FAdd(@, color[2]),
                 !.dye_b[y * s.width + x] = FAdd(@, color[3])]
  ELSE s

\* velocity[idx] += force * falloff.
ForceAdd(s, force, idx, falloff) ==
  [s EXCEPT !.velocity_x[idx] = FAdd(@, FMul(force[1], falloff)),
            !.velocity_y[idx] = FAdd(@, FMul(force[2], falloff))]

\* The two tests of add_force's inner loop, on (px, py) and on dist_sq.
ForceAt(s, force, r_sq, px, py, dist_sq) ==
  IF px < s.width /\ py < s.height /\ FLe(dist_sq, r_sq)
  THEN ForceAdd(s, force, py * s.width + px, FSub(One, FDiv(dist_sq, r_sq)))
  ELSE s

\* A variant of ForceCell whose positions wrap around the grid's edges.
ForceCell_wrap(s, x, y, force, r_sq, dx, dy) ==
  ForceAt(s, force, r_sq, (x + dx) % s.width, (y + dy) % s.height,
          FromInt(dx * dx + dy * dy))

\* The body of add_force's inner loop for one (dx, dy).
ForceCell(s, x, y, force, r_sq, dx, dy) ==
  ForceAt(s, force, r_sq, I32ToUsize(x + dx), I32ToUsize(y + dy),
          FromInt(dx * dx + dy * dy))

\* for dy in lo..=hi { for dx in lo..=hi { ... } }, from (dx, dy) on.
\* (Here and in the loops below, a test `v = v` is true: it has the result
\* of the iteration before computed when this one starts.)
RECURSIVE ForceLoop(_, _, _, _, _, _, _, _, _)
ForceLoop(s, x, y, force, r_sq, lo, hi, dx, dy) ==
  IF s = s /\ dy > hi THEN s
  ELSE IF dx > hi THEN ForceLoop(s, x, y, force, r_sq, lo, hi, lo, dy + 1)
  ELSE ForceLoop(ForceCell(s, x, y, force, r_sq, dx, dy),
                 x, y, force, r_sq, lo, hi, dx + 1, dy)

\* A variant of add_force without the test of (x, y) against the grid.
add_force_unguarded(s, x, y, force, radius) ==
  ForceLoop(s, x, y, force, FMul(radius, radius),
            ToI32(FNeg(radius)), ToI32(radius), ToI32(FNeg(radius)),
            ToI32(FNeg(radius)))

\* InteractiveFluid::add_force.
add_force(s, x, y, force, radius) ==
  IF x < s.width /\ y < s.height
  THEN ForceLoop(s, x, y, force, FMul(radius, radius),
                 ToI32(FNeg(radius)), ToI32(radius), ToI32(FNeg(radius)),
                 ToI32(FNeg(radius)))
  ELSE s

\* -------------------------------------------------------------- panics
(* A panic (an index past the end of a buffer, or `width - 1` / `height - 1` *)
(* below zero, which overflows in a debug build and runs the loop off the   *)
(* buffer in a release build) ends the call; the grid is then marked        *)
(* panicked.                                                                *)

Panic(s) == [s EXCEPT !.panicked = TRUE]

\* The interior loops `for y in 1..height - 1 { for x in 1..width - 1`:
\* `height - 1` is evaluated first, `width - 1` once per row.
LoopPanics(w, h) == h = 0 \/ (h >= 3 /\ w = 0)

\* ---------------------------------------------------------- boundaries

\* A variant of VelocityBorder without the top row.
VelocityBorder_open(w, h) ==
  {(h - 1) * w + x : x \in 0..(w - 1)}
    \cup {y * w : y \in 0..(h - 1)} \cup {y * w + w - 1 : y \in 0..(h - 1)}

\* The cells set_velocity_boundaries writes.
VelocityBorder(w, h) ==
  {x : x \in 0..(w - 1)} \cup {(h - 1) * w + x : x \in 0..(w - 1)}
    \cup {y * w : y \in 0..(h - 1)} \cup {y * w + w - 1 : y \in 0..(h - 1)}

ZeroBorder(buf, w, h) ==
  [i \in DOMAIN buf |-> IF i \in VelocityBorder(w, h) THEN Zero ELSE buf[i]]

\* InteractiveFluid::set_velocity_boundaries: with one dimension 0 a loop
\* indexes the empty buffer.
set_velocity_boundaries(s) ==
  IF s.panicked THEN s
  ELSE IF (s.width = 0) # (s.height = 0) THEN Panic(s)
  ELSE [s EXCEPT !.velocity_x = ZeroBorder(@, s.width, s.height),
                 !.velocity_y = ZeroBorder(@, s.width, s.height)]

\* b[to] = b[from]
CopyCell(b, to, from) == [b EXCEPT ![to] = b[from]]

\* for x in 0..width: b[x] = b[width + x];
\*                    b[(height-1)*width + x] = b[(height-2)*width + x]
RECURSIVE CopyRows(_, _, _, _)
CopyRows(b, w, h, x) ==
  IF b = b /\ x >= w THEN b
  ELSE CopyRows(CopyCell(CopyCell(b, x, w + x),
                         (h - 1) * w + x, (h - 2) * w + x),
                w, h, x + 1)

\* for y in 0..height: b[y*width] = b[y*width + 1];
\*                     b[y*width + width - 1] = b[y*width + width - 2]
RECURSIVE CopyCols(_, _, _, _)
CopyCols(b, w, h, y) ==
  IF b = b /\ y >= h THEN b
  ELSE CopyCols(CopyCell(CopyCell(b, y * w, y * w + 1),
                         y * w + w - 1, y * w + w - 2),
                w, h, y + 1)

\* A variant of CopyBoundaries without the loop over the columns.
CopyBoundaries_rows(b, w, h) == CopyRows(b, w, h, 0)

\* The two loops of set_dye_boundaries (per channel) and of
\* set_pressure_boundaries.
CopyBoundaries(b, w, h) == CopyCols(CopyRows(b, w, h, 0), w, h, 0)

\* They read row 1 and column 1, and `width - 2`: a grid with a dimension
\* below 2 panics (the 0 x 0 grid runs neither loop).
BoundaryCopyPanics(w, h) == ~(w >= 2 /\ h >= 2) /\ ~(w = 0 /\ h = 0)

\* The buffer a panicking copy leaves.  With height below 2 or width 0 the
\* first read is past the end and nothing has been written.  On a grid of
\* width 1 and height 2 or more the loop over x runs to its end, and the
\* loop over y panics at y = 0 on `y * width + width - 2`, after
\* b[y * width] = b[y * width + 1] has been done (in set_dye_boundaries
\* for all three channels, lines 457-459).
CopyPanicked(b, w, h) ==
  IF w = 1 /\ h >= 2 THEN CopyCell(CopyRows(b, w, h, 0), 0, 1) ELSE b

\* InteractiveFluid::set_dye_boundaries.
set_dye_boundaries(s) ==
  IF s.panicked THEN s
  ELSE IF BoundaryCopyPanics(s.width, s.height)
  THEN Panic([s EXCEPT !.dye_r = CopyPanicked(@, s.width, s.height),
                       !.dye_g = CopyPanicked(@, s.width, s.height),
                       !.dye_b = CopyPanicked(@, s.width, s.height)])
  ELSE [s EXCEPT !.dye_r = CopyBoundaries(@, s.width, s.height),
                 !.dye_g = CopyBoundaries(@, s.width, s.height),
                 !.dye_b = CopyBoundaries(@, s.width, s.height)]

\* InteractiveFluid::set_pressure_boundaries.
set_pressure_boundaries(s) ==
  IF s.panicked THEN s
  ELSE IF BoundaryCopyPanics(s.width, s.height)
  THEN Panic([s EXCEPT !.pressure = CopyPanicked(@, s.width, s.height)])
  ELSE [s EXCEPT !.pressure = CopyBoundaries(@, s.width, s.height)]

\* InteractiveFluid::set_boundaries.
set_boundaries(s) == set_dye_boundaries(set_velocity_boundaries(s))

\* ----------------------------------------------------------- diffusion

\* One sweep over the interior cells from cell k on, in place: the cell's new
\* value reads cur[idx - 1] and cur[idx - width], which this sweep has
\* already written.
RECURSIVE DiffuseCells(_, _, _, _, _, _)
DiffuseCells(cur, prev, a, w, cells, k) ==
  IF cur = cur /\ k > Len(cells) THEN cur
  ELSE DiffuseCells(
         [cur EXCEPT ![cells[k]] =
            FDiv(FAdd(prev[cells[k]],
                      FMul(a, FAdd(FAdd(FAdd(cur[cells[k] - 1],
                                             cur[cells[k] + 1]),
                                        cur[cells[k] - w]),
                                   cur[cells[k] + w]))),
                 FAdd(One, FMul(Four, a)))],
         prev, a, w, cells, k + 1)

\* The velocity sweeps of diffuse_velocity from sweep n on.  The loop body
\* updates velocity_x and velocity_y of a cell together; neither reads the
\* other, so each buffer is swept on its own here.
RECURSIVE VelocitySweepsFrom(_, _, _)
VelocitySweepsFrom(s, a, n) ==
  IF n >= VelocitySweeps \/ s.panicked THEN s
  ELSE IF LoopPanics(s.width, s.height) THEN Panic(s)
  ELSE VelocitySweepsFrom(
         set_velocity_boundaries(
           [s EXCEPT !.velocity_x =
                       DiffuseCells(@, s.velocity_x_prev, a, s.width,
                                    InteriorCells(s.width, s.height), 1),
                     !.velocity_y =
                       DiffuseCells(@, s.velocity_y_prev, a, s.width,
                                    InteriorCells(s.width, s.height), 1)]),
         a, n + 1)

\* let a = self.dt * self.viscosity * (self.width * self.height) as f32;
VelocityCoefficient(s) ==
  FMul(FMul(s.dt, s.viscosity), FromInt(s.width * s.height))

\* A variant of diffuse_velocity that makes one sweep.
diffuse_velocity_once(s) ==
  IF s.panicked THEN s
  ELSE VelocitySweepsFrom(s, VelocityCoefficient(s), VelocitySweeps - 1)

\* InteractiveFluid::diffuse_velocity.
diffuse_velocity(s) ==
  IF s.panicked THEN s
  ELSE VelocitySweepsFrom(s, VelocityCoefficient(s), 0)

\* iter().sum() of buf[lo..hi): a left fold from 0.0.
RECURSIVE SumFrom(_, _, _, _)
SumFrom(buf, i, hi, acc) ==
  IF acc = acc /\ i >= hi THEN acc
  ELSE SumFrom(buf, i + 1, hi, FAdd(acc, buf[i]))

Sum(buf, n) == SumFrom(buf, 0, n, Zero)

\* The parallel reduce of buf[lo..hi): the range is halved `depth` times and
\* each piece is folded from the identity 0.0 on its own.
RECURSIVE ParSum(_, _, _, _)
ParSum(buf, lo, hi, depth) ==
  IF depth = 0 \/ hi - lo < 2 THEN SumFrom(buf, lo, hi, Zero)
  ELSE FAdd(ParSum(buf, lo, lo + ((hi - lo) \div 2), depth - 1),
            ParSum(buf, lo + ((hi - lo) \div 2), hi, depth - 1))

Scale(buf, k) == [i \in DOMAIN buf |-> FMul(buf[i], k)]

\* A variant of RescaleTo without the test of the sum.
RescaleTo_unguarded(buf, before, after) == Scale(buf, FDiv(before, after))

\* if after > 1e-10 { scale = before / after; every cell *= scale }
RescaleTo(buf, before, after) ==
  IF FGt(after, MassEps) THEN Scale(buf, FDiv(before, after)) ELSE buf

\* diffuse_dye's correction of one channel.
RescaleIfMass(buf, before, n) == RescaleTo(buf, before, Sum(buf, n))

\* The dye sweeps of diffuse_dye from sweep n on.
RECURSIVE DyeSweepsFrom(_, _, _)
DyeSweepsFrom(s, a, n) ==
  IF n >= DyeSweeps \/ s.panicked THEN s
  ELSE IF LoopPanics(s.width, s.height) THEN Panic(s)
  ELSE DyeSweepsFrom(
         set_dye_boundaries(
           [s EXCEPT !.dye_r = DiffuseCells(@, s.dye_r_prev, a, s.width,
                                            InteriorCells(s.width, s.height), 1),
                     !.dye_g = DiffuseCells(@, s.dye_g_prev, a, s.width,
                                            InteriorCells(s.width, s.height), 1),
                     !.dye_b = DiffuseCells(@, s.dye_b_prev, a, s.width,
                                            InteriorCells(s.width, s.height), 1)]),
         a, n + 1)

\* diffuse_dye's three corrections, each channel on its own.
DiffuseDyeRescale(t, total_r_before, total_g_before, total_b_before) ==
  IF t.panicked THEN t
  ELSE [t EXCEPT !.dye_r = RescaleIfMass(@, total_r_before, t.width * t.height),
                 !.dye_g = RescaleIfMass(@, total_g_before, t.width * t.height),
                 !.dye_b = RescaleIfMass(@, total_b_before, t.width * t.height)]

\* let a = self.dt * self.dye_diffusion * (self.width * self.height) as f32;
DyeCoefficient(s) ==
  FMul(FMul(s.dt, s.dye_diffusion), FromInt(s.width * s.height))

\* InteractiveFluid::diffuse_dye.
diffuse_dye(s) ==
  IF s.panicked THEN s
  ELSE DiffuseDyeRescale(
         DyeSweepsFrom(s, DyeCoefficient(s), 0),
         Sum(s.dye_r, s.width * s.height), Sum(s.dye_g, s.width * s.height),
         Sum(s.dye_b, s.width * s.height))

\* ---------------------------------------------------------- projection

\* divergence[idx] = -0.5 * h * (vx[idx+1] - vx[idx-1] + vy[idx+width] - vy[idx-width])
DivergenceAt(s, h, idx) ==
  FMul(FMul(FNeg(Half), h),
       FSub(FAdd(FSub(s.velocity_x[idx + 1], s.velocity_x[idx - 1]),
                 s.velocity_y[idx + s.width]),
            s.velocity_y[idx - s.width]))

\* if change > max_change { max_change = change }
PressureMax(p1, max_change, change) ==
  <<p1, IF FGt(change, max_change) THEN change ELSE max_change>>

\* pressure[idx] = v, and the change it makes.
PressureCell(p, max_change, idx, v) ==
  PressureMax([p EXCEPT ![idx] = v], max_change, FAbs(FSub(v, p[idx])))

\* One relaxation sweep from cell k on, in place; pm = <<pressure, max_change>>.
RECURSIVE PressureCells(_, _, _, _, _)
PressureCells(pm, div, w, cells, k) ==
  IF pm = pm /\ k > Len(cells) THEN pm
  ELSE PressureCells(
         PressureCell(pm[1], pm[2], cells[k],
                      FDiv(FAdd(FAdd(FAdd(FAdd(div[cells[k]],
                                               pm[1][cells[k] - 1]),
                                          pm[1][cells[k] + 1]),
                                     pm[1][cells[k] - w]),
                                pm[1][cells[k] + w]),
                           Four)),
         div, w, cells, k + 1)

\* for iter in 0..max_iterations, from iter on; last is the max_change of the
\* sweep before.  The result is <<pressure, sweeps done, last max_change>>.
RECURSIVE Relax(_, _, _, _, _, _, _)

\* A variant of RelaxNext that leaves the loop on the first small change.
RelaxNext_eager(p1, max_change, div, w, h, cells, iter) ==
  IF p1 = p1 /\ FLt(max_change, convergence_threshold)
  THEN <<p1, iter + 1, max_change>>
  ELSE Relax(p1, div, w, h, cells, iter + 1, max_change)

\* The end of one iteration: the early exit, or the next iteration.
RelaxNext(p1, max_change, div, w, h, cells, iter) ==
  IF p1 = p1 /\ iter > MinIter /\ FLt(max_change, convergence_threshold)
  THEN <<p1, iter + 1, max_change>>
  ELSE Relax(p1, div, w, h, cells, iter + 1, max_change)

\* set_pressure_boundaries after the sweep pm.
RelaxSwept(pm, div, w, h, cells, iter) ==
  RelaxNext(CopyBoundaries(pm[1], w, h), pm[2], div, w, h, cells, iter)

Relax(p, div, w, h, cells, iter, last) ==
  IF iter >= max_iterations THEN <<p, iter, last>>
  ELSE RelaxSwept(PressureCells(<<p, Zero>>, div, w, cells, 1),
                  div, w, h, cells, iter)

\* The last loop of project_velocity: the pressure gradient is subtracted.
ProjectSubtract(s, h, I, div, p) ==
  set_velocity_boundaries(
    [s EXCEPT !.divergence = div, !.pressure = p,
              !.velocity_x =
                [i \in DOMAIN s.velocity_x |->
                   IF i \in I
                   THEN FSub(s.velocity_x[i],
                             FDiv(FMul(Half, FSub(p[i + 1], p[i - 1])), h))
                   ELSE s.velocity_x[i]],
              !.velocity_y =
                [i \in DOMAIN s.velocity_y |->
                   IF i \in I
                   THEN FSub(s.velocity_y[i],
                             FDiv(FMul(Half, FSub(p[i + s.width],
                                                  p[i - s.width])), h))
                   ELSE s.velocity_y[i]]])

\* set_pressure_boundaries and the relaxation, from the divergence div and
\* the zeroed pressure p0.
ProjectSolve(s, h, I, div, p0) ==
  IF BoundaryCopyPanics(s.width, s.height)
  THEN Panic([s EXCEPT !.divergence = div,
                       !.pressure = CopyPanicked(p0, s.width, s.height)])
  ELSE ProjectSubtract(
         s, h, I, div,
         Relax(CopyBoundaries(p0, s.width, s.height), div, s.width, s.height,
               InteriorCells(s.width, s.height), 0, Zero)[1])

\* The first loop of project_velocity over the interior I: the divergence it
\* leaves,
Divergences(s, h, I) ==
  [i \in DOMAIN s.divergence |->
     IF i \in I THEN DivergenceAt(s, h, i) ELSE s.divergence[i]]

\* and the pressure, zeroed.
ZeroedPressure(s, I) ==
  [i \in DOMAIN s.pressure |-> IF i \in I THEN Zero ELSE s.pressure[i]]

ProjectWith(s, h, I) ==
  ProjectSolve(s, h, I, Divergences(s, h, I), ZeroedPressure(s, I))

\* InteractiveFluid::project_velocity.
project_velocity(s) ==
  IF s.panicked THEN s
  ELSE IF LoopPanics(s.width, s.height) THEN Panic(s)
  ELSE ProjectWith(s, FDiv(One, FromInt(s.width)),
                   InteriorSet(s.width, s.height))

\* ----------------------------------------------------------- advection

\* The fractions and the four cells around the source point (src_x, src_y),
\* whose cell is (x0, y0).
BacktraceCell(w, src_x, src_y, x0, y0) ==
  [sx |-> FSub(src_x, FromInt(x0)), sy |-> FSub(src_y, FromInt(y0)),
   idx00 |-> y0 * w + x0, idx01 |-> y0 * w + x0 + 1,
   idx10 |-> (y0 + 1) * w + x0, idx11 |-> (y0 + 1) * w + x0 + 1]

BacktraceFrom(w, src_x, src_y) ==
  BacktraceCell(w, src_x, src_y, ToUsize(FFloor(src_x)), ToUsize(FFloor(src_y)))

\* A variant of Backtrace that does not clamp the source point.
Backtrace_unclamped(s, x, y, vx, vy) ==
  BacktraceFrom(s.width, FSub(FromInt(x), FMul(s.dt, vx)),
                FSub(FromInt(y), FMul(s.dt, vy)))

\* The clamped source point and the four cells around it for cell (x, y)
\* carried by velocity (vx, vy).
Backtrace(s, x, y, vx, vy) ==
  BacktraceFrom(s.width,
                FMin(FMax(FSub(FromInt(x), FMul(s.dt, vx)), Half),
                     FSub(FromInt(s.width - 1), Half)),
                FMin(FMax(FSub(FromInt(y), FMul(s.dt, vy)), Half),
                     FSub(FromInt(s.height - 1), Half)))

\* A variant of Bilinear whose first weight is (sx - 1) * (1 - sy).
Bilinear_signed(buf, k) ==
  FAdd(FAdd(FAdd(FMul(FMul(FSub(k.sx, One), FSub(One, k.sy)), buf[k.idx00]),
                 FMul(FMul(k.sx, FSub(One, k.sy)), buf[k.idx01])),
            FMul(FMul(FSub(One, k.sx), k.sy), buf[k.idx10])),
       FMul(FMul(k.sx, k.sy), buf[k.idx11]))

\* Bilinear interpolation of buf at a backtraced point.
Bilinear(buf, k) ==
  FAdd(FAdd(FAdd(FMul(FMul(FSub(One, k.sx), FSub(One, k.sy)), buf[k.idx00]),
                 FMul(FMul(k.sx, FSub(One, k.sy)), buf[k.idx01])),
            FMul(FMul(FSub(One, k.sx), k.sy), buf[k.idx10])),
       FMul(FMul(k.sx, k.sy), buf[k.idx11]))

InRange(k, n) == k.idx00 < n /\ k.idx01 < n /\ k.idx10 < n /\ k.idx11 < n

Advected(cur, prev, K, I) ==
  [i \in DOMAIN cur |-> IF i \in I THEN Bilinear(prev, K[i]) ELSE cur[i]]

\* A variant of AdvectVelocityAlong that samples the current velocity.
AdvectVelocityAlong_current(s, I, K) ==
  IF \E i \in I : ~InRange(K[i], s.width * s.height) THEN Panic(s)
  ELSE set_velocity_boundaries(
         [s EXCEPT !.velocity_x = Advected(@, s.velocity_x, K, I),
                   !.velocity_y = Advected(@, s.velocity_y, K, I)])

\* advect_velocity's loop over the interior I with the backtraces K, and its
\* set_velocity_boundaries.
AdvectVelocityAlong(s, I, K) ==
  IF \E i \in I : ~InRange(K[i], s.width * s.height) THEN Panic(s)
  ELSE set_velocity_boundaries(
         [s EXCEPT !.velocity_x = Advected(@, s.velocity_x_prev, K, I),
                   !.velocity_y = Advected(@, s.velocity_y_prev, K, I)])

\* A variant of AdvectVelocityFrom whose backtrace is carried along x by the
\* red dye.
AdvectVelocityFrom_dye(s, I) ==
  AdvectVelocityAlong(
    s, I, [i \in I |-> Backtrace(s, i % s.width, i \div s.width,
                                s.dye_r_prev[i], s.velocity_y_prev[i])])

\* The backtrace follows the snapshot.
AdvectVelocityFrom(s, I) ==
  AdvectVelocityAlong(
    s, I, [i \in I |-> Backtrace(s, i % s.width, i \div s.width,
                                s.velocity_x_prev[i], s.velocity_y_prev[i])])

\* InteractiveFluid::advect_velocity.
advect_velocity(s) ==
  IF s.panicked THEN s
  ELSE IF LoopPanics(s.width, s.height) THEN Panic(s)
  ELSE AdvectVelocityFrom(s, InteriorSet(s.width, s.height))

\* A variant of AdvectDyeAlong that samples the current dye.
AdvectDyeAlong_current(s, I, K) ==
  IF \E i \in I : ~InRange(K[i], s.width * s.height) THEN Panic(s)
  ELSE set_dye_boundaries(
         [s EXCEPT !.dye_r = Advected(@, s.dye_r, K, I),
                   !.dye_g = Advected(@, s.dye_g, K, I),
                   !.dye_b = Advected(@, s.dye_b, K, I)])

\* advect_dye's loop over the interior I with the backtraces K, and its
\* set_dye_boundaries.
AdvectDyeAlong(s, I, K) ==
  IF \E i \in I : ~InRange(K[i], s.width * s.height) THEN Panic(s)
  ELSE set_dye_boundaries(
         [s EXCEPT !.dye_r = Advected(@, s.dye_r_prev, K, I),
                   !.dye_g = Advected(@, s.dye_g_prev, K, I),
                   !.dye_b = Advected(@, s.dye_b_prev, K, I)])

\* The backtrace follows the current velocity and samples the snapshot.
AdvectDyeFrom(s, I) ==
  AdvectDyeAlong(
    s, I, [i \in I |-> Backtrace(s, i % s.width, i \div s.width,
                                s.velocity_x[i], s.velocity_y[i])])

\* advect_dye up to its rescale.
AdvectDyeCells(s) ==
  IF s.panicked THEN s
  ELSE IF LoopPanics(s.width, s.height) THEN Panic(s)
  ELSE AdvectDyeFrom(s, InteriorSet(s.width, s.height))

\* A variant of RescaleJoint without the test of the totals.
RescaleJoint_unguarded(s, br, bg, bb, ar, ag, ab) ==
  [s EXCEPT !.dye_r = Scale(@, FDiv(br, ar)),
            !.dye_g = Scale(@, FDiv(bg, ag)),
            !.dye_b = Scale(@, FDiv(bb, ab))]

\* advect_dye's correction: all three channels or none.
RescaleJoint(s, br, bg, bb, total_r_after, total_g_after, total_b_after) ==
  IF FGt(total_r_after, MassEps) /\ FGt(total_g_after, MassEps)
     /\ FGt(total_b_after, MassEps)
  THEN [s EXCEPT !.dye_r = Scale(@, FDiv(br, total_r_after)),
                 !.dye_g = Scale(@, FDiv(bg, total_g_after)),
                 !.dye_b = Scale(@, FDiv(bb, total_b_after))]
  ELSE s

\* The totals after advection, and the correction to the totals before.
RescaleAll(s, br, bg, bb) ==
  RescaleJoint(s, br, bg, bb, Sum(s.dye_r, s.width * s.height),
               Sum(s.dye_g, s.width * s.height),
               Sum(s.dye_b, s.width * s.height))

\* advect_dye's totals of the snapshot and the rescale to them.  depth is how
\* often the parallel reduce halved its range (0: the serial sums of the
\* wasm32 build); the loop leaves the snapshot alone, so the totals are the
\* ones taken before it.
DyeRescale(t, depth) ==
  IF t.panicked THEN t
  ELSE RescaleAll(t, ParSum(t.dye_r_prev, 0, t.width * t.height, depth),
                  ParSum(t.dye_g_prev, 0, t.width * t.height, depth),
                  ParSum(t.dye_b_prev, 0, t.width * t.height, depth))

\* InteractiveFluid::advect_dye.
advect_dye(s, depth) == DyeRescale(AdvectDyeCells(s), depth)

\* ---------------------------------------------------------------- step

\* A variant of Snapshot that saves the velocity only.
Snapshot_velocity(s) ==
  [s EXCEPT !.velocity_x_prev = s.velocity_x, !.velocity_y_prev = s.velocity_y]

\* The five copy_from_slice that begin step().
Snapshot(s) ==
  [s EXCEPT !.velocity_x_prev = s.velocity_x, !.velocity_y_prev = s.velocity_y,
            !.dye_r_prev = s.dye_r, !.dye_g_prev = s.dye_g,
            !.dye_b_prev = s.dye_b]

\* step() up to and including diffuse_dye.
StepToDye(s) ==
  diffuse_dye(project_velocity(advect_velocity(project_velocity(
    diffuse_velocity(Snapshot(s))))))

\* step() up to the rescale of advect_dye.
StepToRescale(s) == AdvectDyeCells(StepToDye(s))

\* step() from the rescale of advect_dye on.
StepFromRescale(t, depth) == set_boundaries(DyeRescale(t, depth))

\* InteractiveFluid::step.
step(s, depth) == StepFromRescale(StepToRescale(s), depth)

\* ------------------------------------------------------- state machine

\* Largest width and height constructed.
MaxDim == 5

\* Most calls made on one simulation, the constructor included.
MaxCalls == 4

\* Deepest halving of the parallel reduce.
MaxSplit == 2

VARIABLES width, height, velocity_x, velocity_y, velocity_x_prev,
          velocity_y_prev, dye_r, dye_g, dye_b, dye_r_prev, dye_g_prev,
          dye_b_prev, pressure, divergence, dt, viscosity, dye_diffusion,
          status, call, calls, pc, trace, twin, app

vars == <<width, height, velocity_x, velocity_y, velocity_x_prev,
          velocity_y_prev, dye_r, dye_g, dye_b, dye_r_prev, dye_g_prev,
          dye_b_prev, pressure, divergence, dt, viscosity, dye_diffusion,
          status, call, calls, pc, trace, twin, app>>

\* The simulation as the record the operators work on.
Sim ==
  [width |-> width, height |-> height,
   velocity_x |-> velocity_x, velocity_y |-> velocity_y,
   velocity_x_prev |-> velocity_x_prev, velocity_y_prev |-> velocity_y_prev,
   dye_r |-> dye_r, dye_g |-> dye_g, dye_b |-> dye_b,
   dye_r_prev |-> dye_r_prev, dye_g_prev |-> dye_g_prev,
   dye_b_prev |-> dye_b_prev,
   pressure |-> pressure, divergence |-> divergence,
   dt |-> dt, viscosity |-> viscosity, dye_diffusion |-> dye_diffusion,
   panicked |-> status = "panicked"]

\* The simulation becomes t.
Becomes(t) ==
  /\ width' = t.width /\ height' = t.height
  /\ velocity_x' = t.velocity_x /\ velocity_y' = t.velocity_y
  /\ velocity_x_prev' = t.velocity_x_prev
  /\ velocity_y_prev' = t.velocity_y_prev
  /\ dye_r' = t.dye_r /\ dye_g' = t.dye_g /\ dye_b' = t.dye_b
  /\ dye_r_prev' = t.dye_r_prev /\ dye_g_prev' = t.dye_g_prev
  /\ dye_b_prev' = t.dye_b_prev
  /\ pressure' = t.pressure /\ divergence' = t.divergence
  /\ dt' = t.dt /\ viscosity' = t.viscosity
  /\ dye_diffusion' = t.dye_diffusion
  /\ status' = IF t.panicked THEN "panicked" ELSE "ok"

\* The colours and forces of the repository's tests.
Mixed == <<FromInt(5), FromInt(3), FromInt(2)>>
Red == <<One, Zero, Zero>>
Push == <<FromInt(10), Zero>>
Stir == <<FromInt(10), FromInt(5)>>
Two == FromInt(2)

\* Widths and heights constructed: the empty grid, grids without an interior,
\* and grids with one.
Dims ==
  {d \in (0..MaxDim) \X (0..MaxDim) : d[2] <= d[1] /\ d[1] <= d[2] + 1}

\* The add_dye calls made on a w x h grid: at the centre, and past the right
\* edge.
DyeCalls(w, h) ==
  {<<w \div 2, h \div 2, Mixed>>, <<w \div 2, h \div 2, Red>>, <<w, 0, Mixed>>}

\* The add_force calls made on a w x h grid: at the centre, in the corner,
\* and below the bottom edge.
ForceCalls(w, h) ==
  {<<w \div 2, h \div 2, Push, One>>, <<0, 0, Stir, Two>>,
   <<w \div 2, h, Push, One>>}

\* No window yet.
NoApp == [updates |-> -1]

NoCall == [op |-> "none", x |-> 0, y |-> 0, a |-> <<>>, radius |-> Zero]

Init ==
  /\ width = 0 /\ height = 0
  /\ velocity_x = <<>> /\ velocity_y = <<>>
  /\ velocity_x_prev = <<>> /\ velocity_y_prev = <<>>
  /\ dye_r = <<>> /\ dye_g = <<>> /\ dye_b = <<>>
  /\ dye_r_prev = <<>> /\ dye_g_prev = <<>> /\ dye_b_prev = <<>>
  /\ pressure = <<>> /\ divergence = <<>>
  /\ dt = Zero /\ viscosity = Zero /\ dye_diffusion = Zero
  /\ status = "none" /\ call = NoCall /\ calls = 0
  /\ pc = 0 /\ trace = <<>>
  /\ twin = new(0, 0)
  /\ app = NoApp

\* InteractiveFluid::new(w, h).
New ==
  /\ status = "none"
  /\ \E d \in Dims :
       /\ Becomes(new(d[1], d[2]))
       /\ call' = [op |-> "new", x |-> d[1], y |-> d[2], a |-> <<>>,
                   radius |-> Zero]
  /\ calls' = 1
  /\ UNCHANGED <<pc, trace, twin, app>>

\* add_dye(x, y, color).
AddDye ==
  /\ status = "ok" /\ calls < MaxCalls /\ pc = 0
  /\ \E c \in DyeCalls(width, height) :
       /\ Becomes(add_dye(Sim, c[1], c[2], c[3]))
       /\ call' = [op |-> "add_dye", x |-> c[1], y |-> c[2], a |-> c[3],
                   radius |-> Zero]
  /\ calls' = calls + 1
  /\ UNCHANGED <<pc, trace, twin, app>>

\* add_force(x, y, force, radius).
AddForce ==
  /\ status = "ok" /\ calls < MaxCalls /\ pc = 0
  /\ \E c \in ForceCalls(width, height) :
       /\ Becomes(add_force(Sim, c[1], c[2], c[3], c[4]))
       /\ call' = [op |-> "add_force", x |-> c[1], y |-> c[2], a |-> c[3],
                   radius |-> c[4]]
  /\ calls' = calls + 1
  /\ UNCHANGED <<pc, trace, twin, app>>

\* step(): the parallel reduce of advect_dye combines its terms in one of the
\* orders the scheduler can produce.
Step ==
  /\ status = "ok" /\ calls < MaxCalls /\ pc = 0
  /\ \E t \in {StepToRescale(Sim)} :
       \E depth \in 0..MaxSplit : Becomes(StepFromRescale(t, depth))
  /\ call' = [op |-> "step", x |-> 0, y |-> 0, a |-> <<>>, radius |-> Zero]
  /\ calls' = calls + 1
  /\ UNCHANGED <<pc, trace, twin, app>>

\* The radius that the trait method passes on (line 34).
TraitRadius == FromInt(3)

\* The FluidSimulation::add_force calls made on a w x h grid: at the centre,
\* and past the right edge.
TraitForceCalls(w, h) == {<<w \div 2, h \div 2, Stir>>, <<w, 0, Push>>}

\* <InteractiveFluid as FluidSimulation>::add_force(x, y, force): add_force
\* with the radius 3.0.  The trait's step, add_dye, width and height pass
\* their arguments on unchanged and are the actions Step and AddDye.
FluidSimulation_add_force ==
  /\ status = "ok" /\ calls < MaxCalls /\ pc = 0
  /\ \E c \in TraitForceCalls(width, height) :
       /\ Becomes(add_force(Sim, c[1], c[2], c[3], TraitRadius))
       /\ call' = [op |-> "add_force", x |-> c[1], y |-> c[2], a |-> c[3],
                   radius |-> TraitRadius]
  /\ calls' = calls + 1
  /\ UNCHANGED <<pc, trace, twin, app>>

\* A stage of step() called on its own has left the simulation as t: the five
\* stages are public functions (benches/cpu_performance.rs:59-95 calls them
\* one by one).  No snapshot is taken: the stage reads the _prev buffers as
\* the last step() or the constructor left them.
Alone(t, name) ==
  /\ Becomes(t)
  /\ call' = [op |-> name, x |-> 0, y |-> 0, a |-> <<>>, radius |-> Zero]
  /\ calls' = calls + 1
  /\ UNCHANGED <<pc, trace, twin, app>>

\* diffuse_velocity() on its own.
DiffuseVelocity ==
  /\ status = "ok" /\ calls < MaxCalls /\ pc = 0
  /\ Alone(diffuse_velocity(Sim), "diffuse_velocity")

\* project_velocity() on its own.
ProjectVelocity ==
  /\ status = "ok" /\ calls < MaxCalls /\ pc = 0
  /\ Alone(project_velocity(Sim), "project_velocity")

\* advect_velocity() on its own.
AdvectVelocity ==
  /\ status = "ok" /\ calls < MaxCalls /\ pc = 0
  /\ Alone(advect_velocity(Sim), "advect_velocity")

\* diffuse_dye() on its own.
DiffuseDye ==
  /\ status = "ok" /\ calls < MaxCalls /\ pc = 0
  /\ Alone(diffuse_dye(Sim), "diffuse_dye")

\* advect_dye() on its own, its parallel reduce as in Step.
AdvectDye ==
  /\ status = "ok" /\ calls < MaxCalls /\ pc = 0
  /\ \E t \in {AdvectDyeCells(Sim)} :
       \E depth \in 0..MaxSplit : Alone(DyeRescale(t, depth), "advect_dye")

\* One of the public calls that take the whole simulation in one go.
Stage ==
  \/ FluidSimulation_add_force
  \/ DiffuseVelocity \/ ProjectVelocity \/ AdvectVelocity
  \/ DiffuseDye \/ AdvectDye

Next == New \/ AddDye \/ AddForce \/ Step \/ Stage

Spec == Init /\ [][Next]_vars

\* ------------------------------------------------- step(), stage by stage
(* The same machine with step() taken one statement of its body at a time. *)
(* pc is the number of statements of the running step() that have          *)
(* returned (0 when no step() is running) and trace names the statements   *)
(* the last step() has entered.  A statement that panics ends the call.    *)

\* The statement entered `name` has left the simulation as t; the step goes
\* on to its next statement, or returns after its last one.
Staged(t, name, last) ==
  /\ Becomes(t)
  /\ trace' = Append(trace, name)
  /\ pc' = IF t.panicked \/ last THEN 0 ELSE pc + 1
  /\ UNCHANGED <<call, calls, twin, app>>

\* step() is called: the five copy_from_slice of lines 113-117.
StepSnapshot ==
  /\ status = "ok" /\ calls < MaxCalls /\ pc = 0
  /\ Becomes(Snapshot(Sim))
  /\ trace' = <<"snapshot">>
  /\ pc' = 1
  /\ call' = [op |-> "step", x |-> 0, y |-> 0, a |-> <<>>, radius |-> Zero]
  /\ calls' = calls + 1
  /\ UNCHANGED <<twin, app>>

\* self.diffuse_velocity();
StepDiffuseVelocity ==
  pc = 1 /\ Staged(diffuse_velocity(Sim), "diffuse_velocity", FALSE)

\* self.project_velocity(); the first call
StepProject ==
  pc = 2 /\ Staged(project_velocity(Sim), "project_velocity", FALSE)

\* self.advect_velocity();
StepAdvectVelocity ==
  pc = 3 /\ Staged(advect_velocity(Sim), "advect_velocity", FALSE)

\* self.project_velocity(); the second call
StepProjectAgain ==
  pc = 4 /\ Staged(project_velocity(Sim), "project_velocity", FALSE)

\* self.diffuse_dye();
StepDiffuseDye ==
  pc = 5 /\ Staged(diffuse_dye(Sim), "diffuse_dye", FALSE)

\* self.advect_dye();
StepAdvectDye ==
  /\ pc = 6
  /\ \E t \in {AdvectDyeCells(Sim)} :
       \E depth \in 0..MaxSplit :
         Staged(DyeRescale(t, depth), "advect_dye", FALSE)

\* self.set_boundaries();
StepSetBoundaries ==
  pc = 7 /\ Staged(set_boundaries(Sim), "set_boundaries", TRUE)

NextStaged ==
  \/ New \/ AddDye \/ AddForce \/ Stage
  \/ StepSnapshot \/ StepDiffuseVelocity \/ StepProject \/ StepAdvectVelocity
  \/ StepProjectAgain \/ StepDiffuseDye \/ StepAdvectDye \/ StepSetBoundaries

SpecStaged == Init /\ [][NextStaged]_vars

\* --------------------------------------------------------------- two runs
(* Two simulations of one size receive the same add_force and step()      *)
(* calls and the same calls of the stages of step() on their own.  The    *)
(* first one (the variables) also receives add_dye calls; the second one  *)
(* (twin) receives none.                                                  *)

\* Largest width of the pair of simulations.
TwinDim == 4

TwinDims == {d \in Dims : d[1] <= TwinDim}

\* InteractiveFluid::new(w, h), twice.
TwinNew ==
  /\ status = "none"
  /\ \E d \in TwinDims :
       /\ Becomes(new(d[1], d[2]))
       /\ twin' = new(d[1], d[2])
       /\ call' = [op |-> "new", x |-> d[1], y |-> d[2], a |-> <<>>,
                   radius |-> Zero]
  /\ calls' = 1
  /\ UNCHANGED <<pc, trace, app>>

\* add_dye(x, y, color) on the first simulation only.
TwinAddDye ==
  /\ status = "ok" /\ calls < MaxCalls
  /\ \E c \in DyeCalls(width, height) :
       /\ Becomes(add_dye(Sim, c[1], c[2], c[3]))
       /\ call' = [op |-> "add_dye", x |-> c[1], y |-> c[2], a |-> c[3],
                   radius |-> Zero]
  /\ calls' = calls + 1
  /\ UNCHANGED <<pc, trace, twin, app>>

\* add_force(x, y, force, radius) on both.
TwinAddForce ==
  /\ status = "ok" /\ calls < MaxCalls
  /\ \E c \in ForceCalls(width, height) :
       /\ Becomes(add_force(Sim, c[1], c[2], c[3], c[4]))
       /\ twin' = add_force(twin, c[1], c[2], c[3], c[4])
       /\ call' = [op |-> "add_force", x |-> c[1], y |-> c[2], a |-> c[3],
                   radius |-> c[4]]
  /\ calls' = calls + 1
  /\ UNCHANGED <<pc, trace, app>>

\* step() on both.
TwinStep ==
  /\ status = "ok" /\ calls < MaxCalls
  /\ \E t \in {StepToRescale(Sim)} : \E u \in {StepToRescale(twin)} :
       \E depth \in 0..MaxSplit :
         /\ Becomes(StepFromRescale(t, depth))
         /\ twin' = StepFromRescale(u, depth)
  /\ call' = [op |-> "step", x |-> 0, y |-> 0, a |-> <<>>, radius |-> Zero]
  /\ calls' = calls + 1
  /\ UNCHANGED <<pc, trace, app>>

\* FluidSimulation::add_force(x, y, force) on both.
TwinFluidSimulation_add_force ==
  /\ status = "ok" /\ calls < MaxCalls
  /\ \E c \in TraitForceCalls(width, height) :
       /\ Becomes(add_force(Sim, c[1], c[2], c[3], TraitRadius))
       /\ twin' = add_force(twin, c[1], c[2], c[3], TraitRadius)
       /\ call' = [op |-> "add_force", x |-> c[1], y |-> c[2], a |-> c[3],
                   radius |-> TraitRadius]
  /\ calls' = calls + 1
  /\ UNCHANGED <<pc, trace, app>>

\* A stage called on its own on both has left them as t and u.
TwinAlone(t, u, name) ==
  /\ Becomes(t)
  /\ twin' = u
  /\ call' = [op |-> name, x |-> 0, y |-> 0, a |-> <<>>, radius |-> Zero]
  /\ calls' = calls + 1
  /\ UNCHANGED <<pc, trace, app>>

\* diffuse_velocity() on both.
TwinDiffuseVelocity ==
  /\ status = "ok" /\ calls < MaxCalls
  /\ TwinAlone(diffuse_velocity(Sim), diffuse_velocity(twin),
               "diffuse_velocity")

\* project_velocity() on both.
TwinProjectVelocity ==
  /\ status = "ok" /\ calls < MaxCalls
  /\ TwinAlone(project_velocity(Sim), project_velocity(twin),
               "project_velocity")

\* advect_velocity() on both.
TwinAdvectVelocity ==
  /\ status = "ok" /\ calls < MaxCalls
  /\ TwinAlone(advect_velocity(Sim), advect_velocity(twin),
               "advect_velocity")

\* diffuse_dye() on both.
TwinDiffuseDye ==
  /\ status = "ok" /\ calls < MaxCalls
  /\ TwinAlone(diffuse_dye(Sim), diffuse_dye(twin), "diffuse_dye")

\* advect_dye() on both.
TwinAdvectDye ==
  /\ status = "ok" /\ calls < MaxCalls
  /\ \E t \in {AdvectDyeCells(Sim)} : \E u \in {AdvectDyeCells(twin)} :
       \E depth \in 0..MaxSplit :
         TwinAlone(DyeRescale(t, depth), DyeRescale(u, depth), "advect_dye")

NextTwin ==
  \/ TwinNew \/ TwinAddDye \/ TwinAddForce \/ TwinStep
  \/ TwinFluidSimulation_add_force
  \/ TwinDiffuseVelocity \/ TwinProjectVelocity \/ TwinAdvectVelocity
  \/ TwinDiffuseDye \/ TwinAdvectDye

SpecTwin == Init /\ [][NextTwin]_vars

\* ------------------------------------------------ the interactive window
(* InteractiveApp of desktop_interactive.rs, native build (the blocks      *)
(* under cfg(target_arch = "wasm32") are not compiled).  Its grids are at  *)
(* least 50 x 50 cells, so the simulation it owns is held here by its size *)
(* and by the calls the running frame has made on it, not by its cells.    *)

\* Option::None and Option::Some(v).
None == <<>>
Some(v) == <<v>>

\* self.dye_colors, lines 79-88 (index i of the source is i + 1 here).
dye_colors ==
  <<<<One, Zero, Zero>>, <<Zero, One, Zero>>, <<Zero, Zero, One>>,
    <<One, One, Zero>>, <<One, Zero, One>>, <<Zero, One, One>>,
    <<One, One, One>>, <<Zero, Zero, Zero>>>>

\* InteractiveFluid::new(w, h) as the window holds it.
Fluid(w, h) == [width |-> w, height |-> h, calls |-> <<>>]

\* One call on the simulation: `by` is 0 for the pointer's tool and k for
\* the k-th persistent element.
Called(s, op, by, x, y) ==
  [s EXCEPT !.calls = Append(@, [op |-> op, by |-> by, x |-> x, y |-> y])]

\* InteractiveApp::new(width, height); updates counts the frames drawn.
InteractiveApp_new(w, h) ==
  [simulation |-> Fluid(w, h), paused |-> FALSE, frame_count |-> 0,
   selected_tool |-> "Dye", mouse_start_pos |-> None,
   mouse_current_pos |-> None, current_dye_index |-> 0,
   dye_intensity |-> Half, force_intensity |-> Half,
   attractor_radius |-> FromInt(50), attractor_strength |-> FromInt(5),
   resolution_scale |-> 1, base_width |-> w, base_height |-> h,
   continuous_color_pos |-> None, last_window_size |-> None,
   sampled_color |-> None, attractor_pos |-> None,
   attractor_grid_pos |-> None, persistent_elements |-> <<>>,
   placement_mode |-> FALSE, eraser_radius |-> FromInt(30),
   eraser_pos |-> None, updates |-> 0]

\* change_resolution(scale).
change_resolution(a, scale) ==
  IF scale # a.resolution_scale /\ scale >= 1 /\ scale <= 8
  THEN [a EXCEPT !.resolution_scale = scale,
                 !.simulation = Fluid(a.base_width * scale,
                                      a.base_height * scale),
                 !.mouse_start_pos = None, !.mouse_current_pos = None,
                 !.continuous_color_pos = None]
  ELSE a

\* update, lines 141-162: the window's size against the last one.
should_resize(a, size) ==
  IF a.last_window_size # None
  THEN \/ FGt(FAbs(FSub(size[1], a.last_window_size[1][1])), FromInt(10))
       \/ FGt(FAbs(FSub(size[2], a.last_window_size[1][2])), FromInt(10))
  ELSE TRUE

cell_size_px == FromInt(8)

Resized(a, new_width, new_height) ==
  [a EXCEPT !.simulation = Fluid(new_width, new_height),
            !.base_width = new_width, !.base_height = new_height]

Resize(a, size) ==
  [(IF should_resize(a, size)
    THEN Resized(a, ToUsize(FMax(FDiv(size[1], cell_size_px), FromInt(50))),
                 ToUsize(FMax(FDiv(FSub(size[2], FromInt(260)), cell_size_px),
                              FromInt(50))))
    ELSE a) EXCEPT !.last_window_size = Some(size)]

\* The "Clear" button, lines 211-220: every dye and velocity cell to 0.
Clear(a) == [a EXCEPT !.simulation = Called(@, "clear", 0, 0, 0)]

\* update, lines 164-235: the toolbar; `in` is the frame's pointer event.
Toolbar(a, in) ==
  IF in.on = "tool" THEN [a EXCEPT !.selected_tool = in.what]
  ELSE IF in.on = "placement"
  THEN [a EXCEPT !.placement_mode = ~a.placement_mode]
  ELSE IF in.on = "pause" THEN [a EXCEPT !.paused = ~a.paused]
  ELSE IF in.on = "clear" THEN Clear(a)
  ELSE IF in.on = "scale" THEN change_resolution(a, in.what)
  ELSE a

\* update, lines 237-408: the panel of the selected tool, its colour
\* swatches and its sliders.
Panel(a, in) ==
  IF a.selected_tool = "Dye" /\ in.on = "swatch"
  THEN [a EXCEPT !.current_dye_index = in.what]
  ELSE IF a.selected_tool = "Dye" /\ in.on = "dye_intensity"
  THEN [a EXCEPT !.dye_intensity = in.what]
  ELSE IF a.selected_tool = "Force" /\ in.on = "force_intensity"
  THEN [a EXCEPT !.force_intensity = in.what]
  ELSE IF a.selected_tool = "Attractor" /\ in.on = "attractor_radius"
  THEN [a EXCEPT !.attractor_radius = in.what]
  ELSE IF a.selected_tool = "Attractor" /\ in.on = "attractor_strength"
  THEN [a EXCEPT !.attractor_strength = in.what]
  ELSE IF a.selected_tool = "Eraser" /\ in.on = "eraser_radius"
  THEN [a EXCEPT !.eraser_radius = in.what]
  ELSE a

\* The canvas's response to the frame's pointer event (egui::Response).
clicked(in) == in.on = "canvas" /\ in.what = "clicked"
drag_started(in) == in.on = "canvas" /\ in.what = "drag_started"
dragged(in) == in.on = "canvas" /\ in.what \in {"drag_started", "dragged"}
drag_stopped(in) == in.on = "canvas" /\ in.what = "drag_stopped"
is_pointer_button_down_on(in) == dragged(in)
hovered(in) == in.on = "canvas"
interact_pointer_pos(in) ==
  IF in.on = "canvas" /\ in.what # "hovered" THEN Some(in.pos) ELSE None

\* Where the layout puts the canvas: its top left corner, and the space
\* left for it in a window of the given size (lines 156, 413).
CanvasLeft == Zero
CanvasTop == FromInt(90)
available_size(size) == <<size[1], FSub(size[2], FromInt(260))>>

\* Lines 416-418.
cell_size(a, size) ==
  FMin(FDiv(available_size(size)[1], FromInt(a.simulation.width)),
       FDiv(available_size(size)[2], FromInt(a.simulation.height)))

\* (pos - rect.min) / cell_size, the pointer in grid cells.
GridPos(pos, cs) ==
  <<FDiv(FSub(pos[1], CanvasLeft), cs), FDiv(FSub(pos[2], CanvasTop), cs)>>

\* (dx * dx + dy * dy).sqrt() from an element to the grid point g.
Dist(elem, g) ==
  FSqrt(FAdd(FMul(FSub(elem.x, g[1]), FSub(elem.x, g[1])),
             FMul(FSub(elem.y, g[2]), FSub(elem.y, g[2]))))

InGrid(a, x, y) == x < a.simulation.width /\ y < a.simulation.height

Pushed_element(a, element_type, g, radius) ==
  [a EXCEPT !.persistent_elements =
              Append(@, [element_type |-> element_type, x |-> g[1],
                         y |-> g[2], radius |-> radius])]

\* Lines 433-463: a persistent dye source at the pointer, unless one lies
\* within 5 cells.
DyePlace(a, in, g) ==
  IF (clicked(in) \/ dragged(in)) /\ interact_pointer_pos(in) # None
     /\ \A k \in 1..Len(a.persistent_elements) :
          FGt(Dist(a.persistent_elements[k], g), FromInt(5))
  THEN Pushed_element(a, [kind |-> "DyeSource",
                          color |-> dye_colors[a.current_dye_index + 1],
                          intensity |-> a.dye_intensity], g, FromInt(3))
  ELSE a

\* Lines 465-473: placement mode ends with the interaction.
DyePlaced(a, in) ==
  IF drag_stopped(in) THEN [a EXCEPT !.placement_mode = FALSE]
  ELSE IF ~dragged(in) /\ ~is_pointer_button_down_on(in)
          /\ (clicked(in) \/ dragged(in))
  THEN [a EXCEPT !.placement_mode = FALSE]
  ELSE a

\* Lines 476-521: dye added to, or with black removed from, the cells
\* within 2 of the pointer's cell.
DyePaint(a, in, g) ==
  IF (clicked(in) \/ dragged(in)) /\ interact_pointer_pos(in) # None
     /\ InGrid(a, ToUsize(g[1]), ToUsize(g[2]))
  THEN [a EXCEPT !.simulation =
          Called(@, IF dye_colors[a.current_dye_index + 1]
                         = <<Zero, Zero, Zero>>
                    THEN "remove_dye" ELSE "add_dye",
                 0, ToUsize(g[1]), ToUsize(g[2]))]
  ELSE a

\* Tool::Dye, lines 432-523.
DyeTool(a, in, cs) ==
  IF a.placement_mode THEN DyePlaced(DyePlace(a, in, GridPos(in.pos, cs)), in)
  ELSE DyePaint(a, in, GridPos(in.pos, cs))

\* Lines 537-548: the drag's force applied where the drag began.
ForcePush(a, start, cs) ==
  IF InGrid(a, ToUsize(GridPos(start, cs)[1]), ToUsize(GridPos(start, cs)[2]))
  THEN [a EXCEPT !.simulation =
          Called(@, "add_force", 0, ToUsize(GridPos(start, cs)[1]),
                 ToUsize(GridPos(start, cs)[2]))]
  ELSE a

\* Lines 552-573: a persistent force source where the drag began.
ForcePlace(a, cs) ==
  IF a.placement_mode /\ a.mouse_start_pos # None
     /\ a.mouse_current_pos # None
  THEN [Pushed_element(a,
          [kind |-> "ForceSource",
           direction |-> <<FSub(a.mouse_current_pos[1][1],
                                a.mouse_start_pos[1][1]),
                           FSub(a.mouse_current_pos[1][2],
                                a.mouse_start_pos[1][2])>>,
           intensity |-> a.force_intensity],
          GridPos(a.mouse_start_pos[1], cs), FromInt(3))
        EXCEPT !.placement_mode = FALSE]
  ELSE a

\* Tool::Force, lines 524-578.
ForceTool(a, in, cs) ==
  IF drag_started(in)
  THEN [a EXCEPT !.mouse_start_pos = Some(in.pos),
                 !.mouse_current_pos = Some(in.pos)]
  ELSE IF dragged(in)
  THEN IF ~a.placement_mode /\ a.mouse_start_pos # None
       THEN ForcePush([a EXCEPT !.mouse_current_pos = Some(in.pos)],
                      a.mouse_start_pos[1], cs)
       ELSE [a EXCEPT !.mouse_current_pos = Some(in.pos)]
  ELSE IF drag_stopped(in)
  THEN [ForcePlace(a, cs) EXCEPT !.mouse_start_pos = None,
                                 !.mouse_current_pos = None]
  ELSE a

\* Tool::Eyedropper, lines 579-597: the cell whose colour is held.
EyedropperTool(a, in, g) ==
  IF clicked(in) /\ InGrid(a, ToUsize(g[1]), ToUsize(g[2]))
  THEN [a EXCEPT !.sampled_color = Some(<<ToUsize(g[1]), ToUsize(g[2])>>)]
  ELSE a

\* Tool::Attractor, lines 598-668.
AttractorTool(a, in, cs) ==
  IF a.placement_mode
  THEN IF clicked(in)
       THEN [Pushed_element(a, [kind |-> "AttractorSource",
                                strength |-> a.attractor_strength],
                            GridPos(in.pos, cs),
                            FDiv(a.attractor_radius, cs))
             EXCEPT !.placement_mode = FALSE]
       ELSE a
  ELSE IF clicked(in) \/ dragged(in)
  THEN [a EXCEPT !.attractor_pos = Some(in.pos),
                 !.attractor_grid_pos = Some(GridPos(in.pos, cs)),
                 !.simulation = Called(@, "attractor", 0, 0, 0)]
  ELSE IF drag_stopped(in) \/ ~hovered(in)
  THEN [a EXCEPT !.attractor_pos = None, !.attractor_grid_pos = None]
  ELSE a

\* Lines 680-685: the elements farther than r from g stay.
Retained(elems, g, r) == SelectSeq(elems, LAMBDA e : FGt(Dist(e, g), r))

\* Tool::Eraser, lines 669-690.
EraserTool(a, in, cs) ==
  IF clicked(in) \/ dragged(in)
  THEN [a EXCEPT !.eraser_pos = Some(in.pos),
                 !.persistent_elements =
                    Retained(@, GridPos(in.pos, cs),
                             FDiv(a.eraser_radius, cs))]
  ELSE IF drag_stopped(in) \/ ~hovered(in)
  THEN [a EXCEPT !.eraser_pos = None]
  ELSE a

\* update, lines 411-691: the canvas and the selected tool.
ToolOn(a, in, cs) ==
  IF a.selected_tool = "Dye" THEN DyeTool(a, in, cs)
  ELSE IF a.selected_tool = "Force" THEN ForceTool(a, in, cs)
  ELSE IF a.selected_tool = "Eyedropper"
  THEN EyedropperTool(a, in, GridPos(in.pos, cs))
  ELSE IF a.selected_tool = "Attractor" THEN AttractorTool(a, in, cs)
  ELSE EraserTool(a, in, cs)

Interact(a, in) == ToolOn(a, in, cell_size(a, in.size))

\* Lines 810-894: what the loop does for its k-th element.
Apply(s, elem, k, x, y) ==
  IF elem.element_type.kind = "DyeSource"
  THEN IF x < s.width /\ y < s.height
       THEN Called(s, IF elem.element_type.color = <<Zero, Zero, Zero>>
                      THEN "remove_dye" ELSE "add_dye", k, x, y)
       ELSE Called(s, "none", k, x, y)
  ELSE IF elem.element_type.kind = "ForceSource"
  THEN IF x < s.width /\ y < s.height
       THEN Called(s, "add_force", k, x, y)
       ELSE Called(s, "none", k, x, y)
  ELSE Called(s, "attractor", k, 0, 0)

\* Lines 809-895: for elem in &self.persistent_elements.
RECURSIVE ApplyFrom(_, _, _)
ApplyFrom(s, elems, k) ==
  IF s = s /\ k > Len(elems) THEN s
  ELSE ApplyFrom(Apply(s, elems[k], k, ToUsize(FRound(elems[k].x)),
                       ToUsize(FRound(elems[k].y))), elems, k + 1)

\* A variant that steps the simulation in a paused frame too.
Simulate_paused(a) ==
  [a EXCEPT !.simulation =
              Called(ApplyFrom(@, a.persistent_elements, 1), "step", 0, 0, 0),
            !.frame_count = @ + 1]

\* update, lines 805-899: the persistent elements, then one step.
Simulate(a) ==
  IF ~a.paused
  THEN [a EXCEPT !.simulation =
                   Called(ApplyFrom(@, a.persistent_elements, 1), "step",
                          0, 0, 0),
                 !.frame_count = @ + 1]
  ELSE a

\* A frame begins: no call made on the simulation yet.
Frame(a) ==
  [a EXCEPT !.simulation = [@ EXCEPT !.calls = <<>>], !.updates = @ + 1]

\* InteractiveApp::update, one frame of the window of size in.size with the
\* pointer event in.
update(a, in) ==
  Simulate(Interact(Panel(Toolbar(Resize(Frame(a), in.size), in), in), in))

\* Most frames drawn.
MaxFrames == 4

\* Window sizes in pixels: 100 x 50 cells, a change below the 10 pixels
\* that resize, and 150 x 80 cells.
WindowSizes ==
  {<<FromInt(800), FromInt(660)>>, <<FromInt(808), FromInt(664)>>,
   <<FromInt(1200), FromInt(900)>>}

\* Pointer positions in pixels: cell (10, 10) of the first window, a point
\* 2.5 cells to its right, the middle, and a point right of the canvas.
Near == <<FromInt(80), FromInt(170)>>
Beside == <<FromInt(100), FromInt(170)>>
Middle == <<FromInt(400), FromInt(290)>>
Outside == <<FromInt(8000), FromInt(170)>>

Event(on, what, pos) == [on |-> on, what |-> what, pos |-> pos]

\* The pointer events of a frame: none, a click on a button, swatch or
\* slider, or a click or drag on the canvas.
Events ==
  {Event("none", 0, Near)}
  \cup {Event("tool", t, Near) :
          t \in {"Dye", "Force", "Eyedropper", "Attractor", "Eraser"}}
  \cup {Event(b, 0, Near) : b \in {"placement", "pause", "clear"}}
  \cup {Event("scale", n, Near) : n \in {1, 2, 4, 8}}
  \cup {Event("swatch", i, Near) : i \in {1, 7}}
  \cup {Event("dye_intensity", One, Near),
        Event("force_intensity", One, Near),
        Event("attractor_radius", FromInt(100), Near),
        Event("attractor_strength", FromInt(10), Near),
        Event("eraser_radius", FromInt(50), Near)}
  \cup {Event("canvas", "hovered", Near), Event("canvas", "clicked", Near),
        Event("canvas", "clicked", Middle),
        Event("canvas", "drag_started", Near),
        Event("canvas", "dragged", Beside), Event("canvas", "dragged", Middle),
        Event("canvas", "dragged", Outside),
        Event("canvas", "drag_stopped", Middle)}

\* The frames that can follow: the window takes one of the sizes with the
\* pointer away, or keeps its size and the pointer does one thing.
WindowSize(a) ==
  IF a.last_window_size = None THEN <<FromInt(800), FromInt(660)>>
  ELSE a.last_window_size[1]

Sized(e, size) ==
  [size |-> size, on |-> e.on, what |-> e.what, pos |-> e.pos]

FrameInputs(a) ==
  {Sized(Event("none", 0, Near), s) : s \in WindowSizes}
  \cup {Sized(e, WindowSize(a)) : e \in Events}

\* The simulation variables of the other machines stay as they are.
FluidIdle ==
  UNCHANGED <<width, height, velocity_x, velocity_y, velocity_x_prev,
              velocity_y_prev, dye_r, dye_g, dye_b, dye_r_prev, dye_g_prev,
              dye_b_prev, pressure, divergence, dt, viscosity, dye_diffusion,
              status, call, calls, pc, trace, twin>>

\* InteractiveApp::new(100, 100), as main.rs:170 and lib.rs:77 call it.
AppNew ==
  /\ app = NoApp
  /\ app' = InteractiveApp_new(100, 100)
  /\ FluidIdle

\* One frame: InteractiveApp::update.
Update ==
  /\ app.updates >= 0 /\ app.updates < MaxFrames
  /\ \E in \in FrameInputs(app) : app' = update(app, in)
  /\ FluidIdle

NextApp == AppNew \/ Update

SpecApp == Init /\ [][NextApp]_vars

\* ------------------------------------------------------------- properties

\* The cells of the outermost rows and columns of a w x h grid.
BorderCells(w, h) ==
  {i \in 0..(w * h - 1) :
     i % w = 0 \/ i % w = w - 1 \/ i \div w = 0 \/ i \div w = h - 1}

\* The cells at least two cells away from every edge.
DeepCells(w, h) ==
  {i \in 0..(w * h - 1) :
     /\ i % w >= 2 /\ i % w <= w - 3
     /\ i \div w >= 2 /\ i \div w <= h - 3}

\* The cell in the middle of the grid.
Centre == (height \div 2) * width + (width \div 2)

\* The sum of a buffer, added up in index order.
Total(buf) == Sum(buf, width * height)

RelTol == FDiv(One, FromInt(10000))
Hundredth == FDiv(One, FromInt(100))

\* The total of a buffer after a call is within 1e-4, relative, of its total
\* before.
MassKept(before, after) ==
  FLe(FAbs(FSub(Total(after), Total(before))),
      FMul(RelTol, FAbs(Total(before))))

\* No dye in a border cell or in a cell next to one.
DyeAwayFromBorder ==
  \A i \in 0..(width * height - 1) :
    (dye_r[i] # Zero \/ dye_g[i] # Zero \/ dye_b[i] # Zero)
      => i \in DeepCells(width, height)

\* The fluid is at rest.
StillFluid ==
  \A i \in 0..(width * height - 1) :
    velocity_x[i] = Zero /\ velocity_y[i] = Zero

\* The only dye is a positive amount of red in cell i.
OnlyRedAt(i) ==
  /\ FGt(dye_r[i], Zero)
  /\ \A j \in 0..(width * height - 1) :
       /\ j # i => dye_r[j] = Zero
       /\ dye_g[j] = Zero /\ dye_b[j] = Zero

\* The last call was step() and it returned.
Stepped == status = "ok" /\ call.op = "step"

\* C1: on a grid of at least 3 x 3, when step() has returned, velocity_x and
\* velocity_y are exactly 0 in every cell of the border rows and columns,
\* also when add_force wrote to border cells before the step.
C1_BorderVelocityZero ==
  (Stepped /\ width >= 3 /\ height >= 3)
    => \A i \in BorderCells(width, height) :
         velocity_x[i] = Zero /\ velocity_y[i] = Zero

\* A step has zeroed a border cell that held velocity when it began.
C1_Witness ==
  /\ Stepped /\ width >= 3 /\ height >= 3
  /\ \E i \in BorderCells(width, height) :
       velocity_x_prev[i] # Zero /\ velocity_x[i] = Zero

\* C2: when no dye is in a border cell or next to one, step() leaves the
\* total of each dye channel within a relative 1e-4 of its total before the
\* step, for each of r, g, b whatever the other two channels hold and
\* whatever the velocity field.
C2_DyeMassConserved ==
  [][(call'.op = "step" /\ status' = "ok" /\ DyeAwayFromBorder)
       => /\ MassKept(dye_r, dye_r')
          /\ MassKept(dye_g, dye_g')
          /\ MassKept(dye_b, dye_b')]_vars

\* C3: with the fluid at rest and a positive amount of dye in one interior
\* cell only, step() leaves that cell with less dye than was put there and
\* each of its four edge-neighbours with a positive amount, and keeps the
\* channel's total.
C3_DyeDiffusesOutward ==
  [][\A i \in DeepCells(width, height) :
       (call'.op = "step" /\ status' = "ok" /\ StillFluid /\ OnlyRedAt(i))
         => /\ FLt(dye_r'[i], dye_r[i])
            /\ \A j \in {i - 1, i + 1, i - width, i + width} :
                 FGt(dye_r'[j], Zero)
            /\ MassKept(dye_r, dye_r')]_vars

\* A fresh grid of at least 5 x 5 has just received add_force at its centre
\* with force (10, 0) and radius 1.
Pushed ==
  /\ status = "ok" /\ calls = 2 /\ width >= 5 /\ height >= 5
  /\ call = [op |-> "add_force", x |-> width \div 2, y |-> height \div 2,
             a |-> Push, radius |-> One]

\* C4: after add_force at the centre of a fresh grid with force (10, 0) and
\* radius 1, velocity_x at the centre is positive, and after one step() the
\* velocity there still has |vx| > 0.01 or |vy| > 0.01.
C4_ForcePersists ==
  [][Pushed
       => /\ FGt(velocity_x[Centre], Zero)
          /\ (call'.op = "step" /\ status' = "ok")
               => \/ FGt(FAbs(velocity_x'[Centre]), Hundredth)
                  \/ FGt(FAbs(velocity_y'[Centre]), Hundredth)]_vars

\* C5: the state after step() is determined by the state before it: it does
\* not depend on the order in which the parallel reduction of advect_dye
\* combines its terms.
C5_StepDeterministic ==
  status = "ok"
    => \A t \in {StepToRescale(Sim)} :
         \A depth \in 0..MaxSplit :
           StepFromRescale(t, depth) = StepFromRescale(t, 0)

\* The positions up to one past the right and bottom edges that are outside
\* a w x h grid.
OutOfRange(w, h) ==
  {p \in (0..(w + 1)) \X (0..(h + 1)) : p[1] >= w \/ p[2] >= h}

Colours == {Mixed, Red}
Forces == {<<Push, One>>, <<Stir, Two>>}

\* C6: in every reachable state, add_dye and add_force at a position with
\* x >= width or y >= height return without a panic and leave every buffer
\* as it was.
C6_OutOfRangeNoOp ==
  status = "ok"
    => \A p \in OutOfRange(width, height) :
         /\ \A c \in Colours : add_dye(Sim, p[1], p[2], c) = Sim
         /\ \A f \in Forces : add_force(Sim, p[1], p[2], f[1], f[2]) = Sim

\* An add_dye past the right edge has returned on a grid that holds dye.
C6_Witness ==
  /\ status = "ok" /\ call.op = "add_dye" /\ call.x >= width
  /\ width >= 3 /\ height >= 3 /\ dye_r[Centre] # Zero

\* The positions at which additivity is examined: the centre, a corner, and
\* one past the right edge.
Spots == {<<width \div 2, height \div 2>>, <<0, 0>>, <<width, 0>>}

\* The component-wise f32 sum of two colours.
Plus(c1, c2) ==
  <<FAdd(c1[1], c2[1]), FAdd(c1[2], c2[2]), FAdd(c1[3], c2[3])>>

\* The rounding error of the f32 sum a + b.
AddError(a, b) ==
  LET s == FAdd(a, b)
      bv == FSub(s, a)
      av == FSub(s, bv)
  IN FAdd(FSub(a, av), FSub(b, bv))

\* The f32 sums d + c1, (d + c1) + c2 and c1 + c2 are all exact.
ExactSums(d, c1, c2) ==
  /\ AddError(d, c1) = Zero
  /\ AddError(FAdd(d, c1), c2) = Zero
  /\ AddError(c1, c2) = Zero

\* In the cell at p, every channel's sums with c1 and c2 are exact.
ExactAt(p, c1, c2) ==
  (p[1] < width /\ p[2] < height)
    => LET idx == p[2] * width + p[1]
       IN /\ ExactSums(dye_r[idx], c1[1], c2[1])
          /\ ExactSums(dye_g[idx], c1[2], c2[2])
          /\ ExactSums(dye_b[idx], c1[3], c2[3])

\* Two simulations differ at most in the dye of the cell at p.
SameButDyeAt(s, t, p) ==
  LET idx == p[2] * width + p[1]
      Rest(b) == [i \in DOMAIN b |-> IF i = idx THEN Zero ELSE b[i]]
  IN [s EXCEPT !.dye_r = Rest(@), !.dye_g = Rest(@), !.dye_b = Rest(@)]
       = [t EXCEPT !.dye_r = Rest(@), !.dye_g = Rest(@), !.dye_b = Rest(@)]

\* C7 as stated: from any state, add_dye(x, y, c1) followed by
\* add_dye(x, y, c2) yields the same state as add_dye(x, y, c1 + c2).
C7_AddDyeAdditive ==
  status = "ok"
    => \A p \in Spots : \A c1 \in Colours : \A c2 \in Colours :
         add_dye(add_dye(Sim, p[1], p[2], c1), p[1], p[2], c2)
           = add_dye(Sim, p[1], p[2], Plus(c1, c2))

\* C7: add_dye(x, y, c1) followed by add_dye(x, y, c2) yields the same state
\* as add_dye(x, y, c1 + c2) when the f32 sums involved are exact; when one
\* of them rounds, the two states differ at most in the dye of cell (x, y).
C7_AddDyeAdditiveWhenExact ==
  status = "ok"
    => \A p \in Spots : \A c1 \in Colours : \A c2 \in Colours :
         LET twice == add_dye(add_dye(Sim, p[1], p[2], c1), p[1], p[2], c2)
             once == add_dye(Sim, p[1], p[2], Plus(c1, c2))
         IN /\ SameButDyeAt(twice, once, p)
            /\ ExactAt(p, c1, c2) => twice = once

\* Two add_dye calls at the centre of a fresh grid have left what one call
\* with the summed colour leaves.
C7_Witness ==
  /\ status = "ok" /\ calls = 3 /\ call.op = "add_dye"
  /\ width >= 1 /\ height >= 1
  /\ \E c1 \in Colours : \E c2 \in Colours :
       /\ Sim = add_dye(add_dye(new(width, height), width \div 2,
                                height \div 2, c1),
                        width \div 2, height \div 2, c2)
       /\ Sim = add_dye(new(width, height), width \div 2, height \div 2,
                        Plus(c1, c2))
       /\ dye_g[Centre] = FromInt(6)

\* C8: an in-bounds add_dye(x, y, (dr, dg, db)) adds dr, dg, db to dye_r,
\* dye_g, dye_b at index y * width + x and changes nothing else: every other
\* dye cell, both velocity arrays, the _prev snapshots, pressure and
\* divergence keep their values.
C8_AddDyeInBounds ==
  [][(call'.op = "add_dye" /\ call'.x < width /\ call'.y < height)
       => LET idx == call'.y * width + call'.x
          IN /\ dye_r' = [dye_r EXCEPT ![idx] = FAdd(dye_r[idx], call'.a[1])]
             /\ dye_g' = [dye_g EXCEPT ![idx] = FAdd(dye_g[idx], call'.a[2])]
             /\ dye_b' = [dye_b EXCEPT ![idx] = FAdd(dye_b[idx], call'.a[3])]
             /\ UNCHANGED <<width, height, velocity_x, velocity_y,
                            velocity_x_prev, velocity_y_prev, dye_r_prev,
                            dye_g_prev, dye_b_prev, pressure, divergence,
                            dt, viscosity, dye_diffusion, status>>]_vars

\* An in-bounds add_dye of (5, 3, 2) has returned on a cell that held dye.
C8_Witness ==
  /\ status = "ok" /\ call.op = "add_dye" /\ call.a = Mixed
  /\ call.x < width /\ call.y < height
  /\ dye_r[call.y * width + call.x] = FromInt(6)
  /\ dye_g[call.y * width + call.x] = FromInt(3)

\* The squared distance of cell i from (x, y).
DistSq(i, x, y) ==
  ((i % width) - x) * ((i % width) - x)
    + ((i \div width) - y) * ((i \div width) - y)

\* The call has added (gx, gy) to the velocity of every cell at squared
\* distance d from (x, y).
GainedAt(x, y, d, gx, gy) ==
  \A i \in 0..(width * height - 1) :
    DistSq(i, x, y) = d
      => /\ velocity_x'[i] = FAdd(velocity_x[i], gx)
         /\ velocity_y'[i] = FAdd(velocity_y[i], gy)

\* The call has left the velocity of every cell at squared distance d from
\* (x, y) as it was.
KeptAt(x, y, d) ==
  \A i \in 0..(width * height - 1) :
    DistSq(i, x, y) = d
      => velocity_x'[i] = velocity_x[i] /\ velocity_y'[i] = velocity_y[i]

\* The call has added force * falloff at squared distance d.
FalloffAt(x, y, force, d, falloff) ==
  GainedAt(x, y, d, FMul(force[1], falloff), FMul(force[2], falloff))

\* At squared distance d, as an f32 d2, from (x, y): inside the disk the
\* call has added force * (1 - d2 / r2), outside it nothing.
DiskAt(x, y, force, r2, d, d2) ==
  IF FLe(d2, r2) THEN FalloffAt(x, y, force, d, FSub(One, FDiv(d2, r2)))
  ELSE KeptAt(x, y, d)

\* The same at every distance there is on the grid.
DiskAround(x, y, force, r2) ==
  \A d \in {DistSq(i, x, y) : i \in 0..(width * height - 1)} :
    DiskAt(x, y, force, r2, d, FromInt(d))

\* C9: add_force(x, y, force, radius) with (x, y) in bounds and radius > 0
\* adds force * (1 - d2 / radius^2) to the velocity of every cell of the
\* grid whose squared distance d2 from (x, y) is at most radius^2, the whole
\* force at (x, y) itself, and leaves every other velocity cell and every
\* other buffer unchanged: nothing wraps around to the opposite edge.
C9_AddForceDisk ==
  [][(call'.op = "add_force" /\ call'.x < width /\ call'.y < height
        /\ FGt(call'.radius, Zero))
       => /\ DiskAround(call'.x, call'.y, call'.a,
                        FMul(call'.radius, call'.radius))
          /\ velocity_x'[call'.y * width + call'.x]
               = FAdd(velocity_x[call'.y * width + call'.x], call'.a[1])
          /\ velocity_y'[call'.y * width + call'.x]
               = FAdd(velocity_y[call'.y * width + call'.x], call'.a[2])
          /\ UNCHANGED <<width, height, velocity_x_prev, velocity_y_prev,
                         dye_r, dye_g, dye_b, dye_r_prev, dye_g_prev,
                         dye_b_prev, pressure, divergence, dt, viscosity,
                         dye_diffusion, status>>]_vars

\* An add_force of radius 2 in the corner of a fresh grid has returned: the
\* corner holds the whole force, its neighbour a part of it, and the
\* opposite edges nothing.
C9_Witness ==
  /\ status = "ok" /\ calls = 2 /\ call.op = "add_force"
  /\ call.x = 0 /\ call.y = 0 /\ width >= 4 /\ height >= 4
  /\ velocity_x[0] = FromInt(10)
  /\ FGt(velocity_x[1], Zero) /\ FLt(velocity_x[1], FromInt(10))
  /\ velocity_x[width - 1] = Zero
  /\ velocity_x[(height - 1) * width] = Zero

\* C10: new(width, height) with width < 3 or height < 3 is rejected: no grid
\* that small is ever there for add_dye, add_force or step to work on.
C10_SmallGridRejected ==
  status = "ok" => (width >= 3 /\ height >= 3)

\* The stages of step() in the order the specification gives them.
StageOrder ==
  <<"snapshot", "diffuse_velocity", "project_velocity", "advect_velocity",
    "project_velocity", "diffuse_dye", "advect_dye", "set_boundaries">>

\* C11: every step() runs its stages once each, in the order snapshot,
\* diffuse velocity, project, advect velocity, project, diffuse dye, advect
\* dye, enforce boundaries, in any state: while a step() runs the stages it
\* has entered are the first of these, and when it is over they are all of
\* them.
C11_StagesInOrder ==
  call.op = "step"
    => /\ \E n \in 1..Len(StageOrder) : trace = SubSeq(StageOrder, 1, n)
       /\ pc = 0 => trace = StageOrder

\* Every border cell of b holds what the cell next to it toward the inside
\* holds, and every corner what the cell diagonally inside it holds.
ZeroGradient(b) ==
  /\ \A x \in 0..(width - 1) :
       /\ b[x] = b[width + x]
       /\ b[(height - 1) * width + x] = b[(height - 2) * width + x]
  /\ \A y \in 0..(height - 1) :
       /\ b[y * width] = b[y * width + 1]
       /\ b[y * width + width - 1] = b[y * width + width - 2]
  /\ b[0] = b[width + 1]
  /\ b[width - 1] = b[2 * width - 2]
  /\ b[(height - 1) * width] = b[(height - 2) * width + 1]
  /\ b[height * width - 1] = b[(height - 1) * width - 2]

\* C12: when step() has returned, every border cell of dye_r, dye_g and
\* dye_b equals its nearest interior cell (row 0 equals row 1, row height-1
\* row height-2, column 0 column 1, column width-1 column width-2, a corner
\* its diagonal neighbour), also when advect_dye has rescaled the dye.
C12_DyeZeroGradient ==
  Stepped => ZeroGradient(dye_r) /\ ZeroGradient(dye_g) /\ ZeroGradient(dye_b)

\* A step() has returned that rescaled the dye (all three channels hold
\* some) and left dye in the corner.
C12_Witness ==
  /\ Stepped /\ width >= 3 /\ height >= 3
  /\ FGt(dye_r[0], Zero) /\ FGt(dye_g[0], Zero) /\ FGt(dye_b[0], Zero)
  /\ dye_r[0] = dye_r[width + 1]

\* A sequence back to front.
Reverse(q) == [k \in 1..Len(q) |-> q[Len(q) + 1 - k]]

\* The first sweep of a diffusion over buffer b, whose snapshot is prev, with
\* coefficient c, visiting the interior cells in the order `cells`.
FirstSweep(b, prev, c, cells) ==
  DiffuseCells(b, prev, FMul(FMul(dt, c), FromInt(width * height)), width,
               cells, 1)

\* The first relaxation sweep of a project_velocity called now, visiting the
\* interior cells in the order `cells`.
FirstRelaxation(cells) ==
  PressureCells(
    <<CopyBoundaries(ZeroedPressure(Sim, InteriorSet(width, height)),
                     width, height), Zero>>,
    Divergences(Sim, FDiv(One, FromInt(width)), InteriorSet(width, height)),
    width, cells, 1)[1]

\* A sweep gives what it gives in row-major order when it visits the cells
\* back to front.
SweepsOrderFree(cells, back) ==
  /\ pc = 1
       => /\ FirstSweep(velocity_x, velocity_x_prev, viscosity, back)
               = FirstSweep(velocity_x, velocity_x_prev, viscosity, cells)
          /\ FirstSweep(velocity_y, velocity_y_prev, viscosity, back)
               = FirstSweep(velocity_y, velocity_y_prev, viscosity, cells)
  /\ pc \in {2, 4} => FirstRelaxation(back) = FirstRelaxation(cells)
  /\ pc = 5
       => /\ FirstSweep(dye_r, dye_r_prev, dye_diffusion, back)
               = FirstSweep(dye_r, dye_r_prev, dye_diffusion, cells)
          /\ FirstSweep(dye_g, dye_g_prev, dye_diffusion, back)
               = FirstSweep(dye_g, dye_g_prev, dye_diffusion, cells)
          /\ FirstSweep(dye_b, dye_b_prev, dye_diffusion, back)
               = FirstSweep(dye_b, dye_b_prev, dye_diffusion, cells)

\* C13: in the diffusion sweeps and the pressure relaxation sweeps of step()
\* a cell's new value never depends on a value another cell got earlier in
\* the same sweep, so a sweep that visits the cells in another order (here:
\* back to front) gives the result of the row-major sweep.
C13_SweepOrderFree ==
  (width >= 3 /\ height >= 3)
    => SweepsOrderFree(InteriorCells(width, height),
                       Reverse(InteriorCells(width, height)))

\* What of a simulation the dye must not reach.
Flow(s) ==
  [width |-> s.width, height |-> s.height,
   velocity_x |-> s.velocity_x, velocity_y |-> s.velocity_y,
   pressure |-> s.pressure, divergence |-> s.divergence,
   panicked |-> s.panicked]

\* C14: dye is passive: of two simulations that receive the same add_force
\* and step() calls, one with add_dye calls among them and one with none,
\* velocity_x, velocity_y, pressure and divergence are the same after every
\* call, whichever way the reduction of advect_dye is split.
C14_DyePassive == status # "none" => Flow(Sim) = Flow(twin)

\* A step() has returned that began with velocity in the middle of the grid
\* and with dye there in one of the two simulations only.
C14_Witness ==
  /\ Stepped /\ width >= 3 /\ height >= 3
  /\ velocity_x_prev[Centre] # Zero
  /\ dye_r_prev[Centre] # Zero /\ twin.dye_r_prev[Centre] = Zero

\* The absolute central-difference divergence of the velocity (vx, vy) in
\* each interior cell of the grid, 0 elsewhere.
AbsDivergence(vx, vy) ==
  [i \in 0..(width * height - 1) |->
     IF i \in InteriorSet(width, height)
       THEN FAbs(FMul(Half, FAdd(FSub(vx[i + 1], vx[i - 1]),
                                 FSub(vy[i + width], vy[i - width]))))
       ELSE Zero]

\* Its mean over the interior cells.
MeanAbsDivergence(vx, vy) ==
  FDiv(Total(AbsDivergence(vx, vy)), FromInt((width - 2) * (height - 2)))

\* C15: for every velocity field, the mean absolute central-difference
\* divergence over the interior cells is strictly smaller after
\* project_velocity than before it.
C15_DivergenceReduced ==
  [][(pc \in {2, 4} /\ status' = "ok" /\ width >= 3 /\ height >= 3)
       => FLt(MeanAbsDivergence(velocity_x', velocity_y'),
              MeanAbsDivergence(velocity_x, velocity_y))]_vars

\* Velocity components that carry a source point a few cells and a few
\* hundred cells, in both directions.
Moderate ==
  {Zero, FromInt(10), FNeg(FromInt(10)), FromInt(1000), FNeg(FromInt(1000))}

\* The largest finite values, the infinities, and the value that is not a
\* number.
Extremes == {Inf - 1, -(Inf - 1), Inf, -Inf, NaN}

\* The backtraces of interior cell i carried by v along x, along y, and
\* along both.
BacktracesOf(i, v) ==
  {Backtrace(Sim, i % width, i \div width, v, Zero),
   Backtrace(Sim, i % width, i \div width, Zero, v),
   Backtrace(Sim, i % width, i \div width, v, v)}

\* The four cells of the backtrace k are those of a lattice cell (x0, y0)
\* with x0 + 1 < width and y0 + 1 < height.
InsideGrid(k) ==
  /\ k.idx00 % width <= width - 2 /\ k.idx00 \div width <= height - 2
  /\ k.idx01 = k.idx00 + 1 /\ k.idx10 = k.idx00 + width
  /\ k.idx11 = k.idx00 + width + 1
  /\ InRange(k, width * height)

\* The source point of interior cell i, before the clamp, is outside
\* [0.5, width - 1.5] along x.
LeavesGrid(i) ==
  \/ FLt(FSub(FromInt(i % width), FMul(dt, velocity_x_prev[i])), Half)
  \/ FGt(FSub(FromInt(i % width), FMul(dt, velocity_x_prev[i])),
         FSub(FromInt(width - 1), Half))

\* C16: on a grid of at least 3 x 3 step() never panics, and whatever the
\* velocity of an interior cell, the four cells its backtrace samples are
\* x0, x0 + 1, y0, y0 + 1 of a lattice cell inside the grid.
C16_StepInBounds ==
  (width >= 3 /\ height >= 3)
    => /\ status # "panicked"
       /\ call.op = "new"
            => /\ \A i \in InteriorSet(width, height) : \A v \in Moderate :
                    \A k \in BacktracesOf(i, v) : InsideGrid(k)
               /\ \A i \in InteriorSet(width, height) : \A v \in Extremes :
                    \A k \in BacktracesOf(i, v) : InsideGrid(k)

\* A step() has returned in which the velocity carried a source point out
\* of the clamping range.
C16_Witness ==
  /\ Stepped /\ width >= 3 /\ height >= 3
  /\ \E i \in InteriorSet(width, height) : LeavesGrid(i)

\* The velocity and the dye of a simulation, and whether it panicked.
Visible(s) ==
  [velocity_x |-> s.velocity_x, velocity_y |-> s.velocity_y,
   dye_r |-> s.dye_r, dye_g |-> s.dye_g, dye_b |-> s.dye_b,
   panicked |-> s.panicked]

\* The simulation with other contents in pressure, divergence and the five
\* snapshots: those of the velocity and dye buffers, exchanged.
Scrambled ==
  [Sim EXCEPT !.pressure = velocity_x, !.divergence = dye_r,
              !.velocity_x_prev = velocity_y, !.velocity_y_prev = dye_g,
              !.dye_r_prev = dye_b, !.dye_g_prev = velocity_x,
              !.dye_b_prev = dye_r]

\* step() from the state with scrambled scratch buffers gives the velocity
\* and dye that step() gives from the state itself, the reduction of
\* advect_dye being split depth times in the one and again times in the
\* other.
SameVisible(depth, again) ==
  Visible(step(Scrambled, depth)) = Visible(step(Sim, again))

\* C17: the velocity and dye after step() are a function of the velocity and
\* dye when step() is called: two simulations that agree on them and differ
\* in pressure, divergence or the snapshots have the same velocity and dye
\* after step().
C17_ScratchCarriesNothing ==
  (status = "ok" /\ calls < MaxCalls)
    => \A depth \in 0..MaxSplit : SameVisible(depth, 0)

\* No cell of buf is below 0.
NonNegative(buf) == \A i \in DOMAIN buf : FLe(Zero, buf[i])

\* C18: the add_dye calls passing colours without a negative component,
\* every cell of dye_r, dye_g and dye_b is >= 0 after every sequence of
\* add_dye, add_force and step() calls.
C18_DyeNonNegative ==
  NonNegative(dye_r) /\ NonNegative(dye_g) /\ NonNegative(dye_b)

\* A step() that carried dye along has returned, and a cell holds more than
\* 1.0 of it.
C18_Witness ==
  /\ Stepped /\ width >= 3 /\ height >= 3
  /\ velocity_x_prev[Centre] # Zero
  /\ \E i \in DOMAIN dye_r : FGt(dye_r[i], One)

\* The twelve buffers of the simulation.
Buffers ==
  <<velocity_x, velocity_y, velocity_x_prev, velocity_y_prev, dye_r, dye_g,
    dye_b, dye_r_prev, dye_g_prev, dye_b_prev, pressure, divergence>>

\* Every buffer has width * height cells.
SizedBuffers ==
  \A b \in 1..Len(Buffers) : DOMAIN Buffers[b] = 0..(width * height - 1)

\* new(w, h) has just returned: the sizes are the arguments and every cell
\* of every buffer is 0.
FreshlyBuilt ==
  /\ width = call.x /\ height = call.y
  /\ \A b \in 1..Len(Buffers) : \A i \in DOMAIN Buffers[b] : Buffers[b][i] = Zero

\* C19: new(width, height) records width and height and gives every buffer
\* width * height cells, all 0; after that width, height and the length of
\* every buffer stay as they are under add_dye, add_force and step().
C19_BuffersFixed ==
  /\ [](status # "none" => SizedBuffers /\ (call.op = "new" => FreshlyBuilt))
  /\ [][status # "none" => width' = width /\ height' = height]_vars

\* A step() has returned on a grid that is wider than high and that holds
\* dye.
C19_Witness ==
  /\ Stepped /\ height >= 3 /\ width = height + 1 /\ dye_r[Centre] # Zero

\* The relaxation loop of project_velocity called on simulation s:
\* <<pressure, sweeps done, max_change of the last sweep>>.
Relaxation(s) ==
  Relax(CopyBoundaries(ZeroedPressure(s, InteriorSet(s.width, s.height)),
                       s.width, s.height),
        Divergences(s, FDiv(One, FromInt(s.width)),
                    InteriorSet(s.width, s.height)),
        s.width, s.height, InteriorCells(s.width, s.height), 0, Zero)

\* The loop made at most 20 sweeps and at least 5, and fewer than 20 only
\* with a last max_change below the threshold.
SweepsBounded(r) ==
  /\ r[2] <= 20 /\ r[2] >= 5
  /\ r[2] < 20 => FLt(r[3], convergence_threshold)

\* C20: every project_velocity call, one of the two of a step() (pc 2 and 4)
\* or one made on its own (pc 0), ends its relaxation loop after at most
\* 20 sweeps and not before 5 sweeps are completed, and it leaves the loop
\* early only when the largest pressure change of the last sweep is below
\* 0.001.
C20_RelaxationBounded ==
  (pc \in {0, 2, 4} /\ status = "ok" /\ ~BoundaryCopyPanics(width, height))
    => SweepsBounded(Relaxation(Sim))

\* A project_velocity has returned whose relaxation left pressure in the
\* middle of the grid.
C20_Witness ==
  /\ pc \in {3, 5} /\ status = "ok" /\ width >= 3 /\ height >= 3
  /\ pressure[Centre] # Zero

\* Stage `name` is entered: as statement n of a running step(), or called
\* on its own.
Enters(n, name) == pc = n \/ (pc = 0 /\ call'.op = name)

\* Channel `after` is channel `cells` corrected on its own: multiplied cell
\* by cell by (sum of its snapshot) / (sum of cells) when the sum of cells
\* exceeds 1e-10, the sum of the snapshot being reduced with some split.
CorrectedAlone(after, cells, snapshot) ==
  \E depth \in 0..MaxSplit :
    after = RescaleTo(cells, ParSum(snapshot, 0, width * height, depth),
                      Total(cells))

\* C21: the mass correction that ends advect_dye is decided channel by
\* channel: each of r, g, b whose sum after the advection exceeds 1e-10 is
\* multiplied cell by cell by (sum of its _prev snapshot) / (that sum),
\* whatever the sums of the other two channels.
C21_RescalePerChannel ==
  [][(Enters(6, "advect_dye") /\ status' = "ok")
       => \A t \in {AdvectDyeCells(Sim)} :
            /\ CorrectedAlone(dye_r', t.dye_r, dye_r_prev)
            /\ CorrectedAlone(dye_g', t.dye_g, dye_g_prev)
            /\ CorrectedAlone(dye_b', t.dye_b, dye_b_prev)]_vars

\* The dye sweeps of diffuse_dye, before its correction.
DyeSwept == DyeSweepsFrom(Sim, DyeCoefficient(Sim), 0)

\* Channel `after` is channel `cells` multiplied cell by cell by
\* pre_sum / post_sum when post_sum > 1e-10, and is `cells` as it is
\* otherwise.
ScaledBack(after, cells, pre_sum, post_sum) ==
  IF FGt(post_sum, MassEps)
    THEN \A i \in DOMAIN cells :
           after[i] = FMul(cells[i], FDiv(pre_sum, post_sum))
    ELSE after = cells

\* A channel that was scaled has exactly the total it had on entry.
TotalRestored(before, after, cells) ==
  FGt(Total(cells), MassEps) => Total(after) = Total(before)

\* A channel that was scaled has the total it had on entry within a
\* relative 1e-4.
TotalNearlyRestored(before, after, cells) ==
  FGt(Total(cells), MassEps) => MassKept(before, after)

\* C22, as stated: diffuse_dye multiplies each channel whose sum after the
\* sweeps is > 1e-10 by pre_sum / post_sum, so that its total equals the
\* total on entry, and leaves a channel whose sum is <= 1e-10 unscaled.
C22_DiffuseRestoresTotal ==
  [][(Enters(5, "diffuse_dye") /\ status' = "ok")
       => \A t \in {DyeSwept} :
            /\ ScaledBack(dye_r', t.dye_r, Total(dye_r), Total(t.dye_r))
            /\ ScaledBack(dye_g', t.dye_g, Total(dye_g), Total(t.dye_g))
            /\ ScaledBack(dye_b', t.dye_b, Total(dye_b), Total(t.dye_b))
            /\ TotalRestored(dye_r, dye_r', t.dye_r)
            /\ TotalRestored(dye_g, dye_g', t.dye_g)
            /\ TotalRestored(dye_b, dye_b', t.dye_b)]_vars

\* C22, with the total restored up to the rounding of the f32 scale factor
\* and products: within a relative 1e-4 of the total on entry.
C22_DiffuseNearlyRestoresTotal ==
  [][(Enters(5, "diffuse_dye") /\ status' = "ok")
       => \A t \in {DyeSwept} :
            /\ ScaledBack(dye_r', t.dye_r, Total(dye_r), Total(t.dye_r))
            /\ ScaledBack(dye_g', t.dye_g, Total(dye_g), Total(t.dye_g))
            /\ ScaledBack(dye_b', t.dye_b, Total(dye_b), Total(t.dye_b))
            /\ TotalNearlyRestored(dye_r, dye_r', t.dye_r)
            /\ TotalNearlyRestored(dye_g, dye_g', t.dye_g)
            /\ TotalNearlyRestored(dye_b, dye_b', t.dye_b)]_vars

\* diffuse_dye has returned on a grid with an interior: it changed the red
\* in the middle and had no blue to scale.
C22_Witness ==
  /\ pc = 6 /\ status = "ok" /\ width >= 3 /\ height >= 3
  /\ dye_r[Centre] # dye_r_prev[Centre]
  /\ Total(dye_b) = Zero

\* (prev + a * sum of the 4 neighbours) / (1 + 4a) for cell i of buffer b.
SweepValue(b, prev, a, i) ==
  FDiv(FAdd(prev[i],
            FMul(a, FAdd(FAdd(FAdd(b[i - 1], b[i + 1]), b[i - width]),
                         b[i + width]))),
       FAdd(One, FMul(Four, a)))

\* The cell a diffusion sweep visits first gets the value above with
\* a = dt * c from the first sweep.
FirstCellBy(b, prev, c, i) ==
  FirstSweep(b, prev, c, <<i>>)[i] = SweepValue(b, prev, FMul(dt, c), i)

\* C23: the coefficient of the diffusion sweeps is a = dt * viscosity for
\* the velocity and a = dt * dye_diffusion for the dye, on a grid of every
\* size, and a sweep sets an interior cell to
\* (prev + a * sum of its 4 neighbours) / (1 + 4a).
C23_DiffusionCoefficient ==
  (width >= 3 /\ height >= 3)
    => /\ pc = 1
            => /\ FirstCellBy(velocity_x, velocity_x_prev, viscosity, width + 1)
               /\ FirstCellBy(velocity_y, velocity_y_prev, viscosity, width + 1)
       /\ pc = 5
            => /\ FirstCellBy(dye_r, dye_r_prev, dye_diffusion, width + 1)
               /\ FirstCellBy(dye_g, dye_g_prev, dye_diffusion, width + 1)
               /\ FirstCellBy(dye_b, dye_b_prev, dye_diffusion, width + 1)

\* One sweep of diffuse_velocity over the interior, then the velocity
\* borders zeroed.
VelocitySweep(s) ==
  set_velocity_boundaries(
    [s EXCEPT !.velocity_x =
                DiffuseCells(@, s.velocity_x_prev, VelocityCoefficient(s),
                             s.width, InteriorCells(s.width, s.height), 1),
              !.velocity_y =
                DiffuseCells(@, s.velocity_y_prev, VelocityCoefficient(s),
                             s.width, InteriorCells(s.width, s.height), 1)])

\* One sweep of diffuse_dye over the interior, then the dye borders copied
\* from the interior.
DyeSweep(s) ==
  set_dye_boundaries(
    [s EXCEPT !.dye_r = DiffuseCells(@, s.dye_r_prev, DyeCoefficient(s),
                                     s.width, InteriorCells(s.width, s.height), 1),
              !.dye_g = DiffuseCells(@, s.dye_g_prev, DyeCoefficient(s),
                                     s.width, InteriorCells(s.width, s.height), 1),
              !.dye_b = DiffuseCells(@, s.dye_b_prev, DyeCoefficient(s),
                                     s.width, InteriorCells(s.width, s.height), 1)])

\* The simulation is t but for the dye, which is t's dye with each channel
\* corrected to the total it has now.
IsCorrected(t) ==
  Becomes(DiffuseDyeRescale(t, Total(dye_r), Total(dye_g), Total(dye_b)))

\* C24: diffuse_velocity makes exactly 4 sweeps and diffuse_dye exactly 2,
\* whatever the data, and each sweep is followed by its boundary condition
\* (velocity borders zeroed, dye borders copied from the interior) before
\* the next sweep begins.
C24_FixedSweeps ==
  [][/\ (Enters(1, "diffuse_velocity") /\ status' = "ok")
          => Becomes(VelocitySweep(VelocitySweep(VelocitySweep(
                       VelocitySweep(Sim)))))
     /\ (Enters(5, "diffuse_dye") /\ status' = "ok")
          => IsCorrected(DyeSweep(DyeSweep(Sim)))]_vars

\* diffuse_velocity has returned on a grid with an interior: it changed the
\* velocity in the middle, and a border cell that held velocity is 0.
C24_Witness ==
  /\ pc = 2 /\ status = "ok" /\ width >= 3 /\ height >= 3
  /\ velocity_x[Centre] # velocity_x_prev[Centre]
  /\ \E i \in BorderCells(width, height) :
       velocity_x_prev[i] # Zero /\ velocity_x[i] = Zero

\* The five snapshots.
Snapshots ==
  <<velocity_x_prev, velocity_y_prev, dye_r_prev, dye_g_prev, dye_b_prev>>

\* The five buffers they are taken from.
Currents == <<velocity_x, velocity_y, dye_r, dye_g, dye_b>>

\* C25: step() writes the five _prev buffers in its first statement only,
\* so that when it returns they hold what velocity_x, velocity_y, dye_r,
\* dye_g and dye_b held when it was called; add_dye and add_force leave
\* them as they are.
C25_SnapshotOnce ==
  [][/\ (pc = 0 /\ pc' = 1) => Snapshots' = Currents
     /\ pc > 0 => Snapshots' = Snapshots
     /\ call'.op \in {"add_dye", "add_force"} => Snapshots' = Snapshots]_vars

\* A step() has returned that changed the dye in the middle of the grid
\* after saving it.
C25_Witness ==
  /\ pc = 0 /\ call.op = "step" /\ status = "ok" /\ trace = StageOrder
  /\ width >= 3 /\ height >= 3
  /\ dye_r_prev[Centre] # Zero /\ dye_r[Centre] # dye_r_prev[Centre]

\* The velocity of a simulation.
Velocity(s) == <<s.velocity_x, s.velocity_y>>

\* A buffer of the grid's size with 1.0 in every cell.
Ones == [i \in 0..(width * height - 1) |-> One]

\* The simulation with another viscosity.
Thicker == [Sim EXCEPT !.viscosity = Half]

\* The simulation with another viscosity and other contents in pressure
\* and divergence,
Rescratched == [Thicker EXCEPT !.pressure = Ones, !.divergence = Ones]

\* and with another current velocity as well: everything that
\* diffuse_velocity and the first project_velocity have written.
Forgotten == [Rescratched EXCEPT !.velocity_x = Ones, !.velocity_y = Ones]

\* C26: the velocity after step() does not depend on viscosity or on what
\* diffuse_velocity and the first project_velocity wrote: advect_velocity
\* gives the velocity it gives when viscosity, the current velocity,
\* pressure and divergence are replaced, the second project_velocity gives
\* the velocity it gives when viscosity, pressure and divergence are
\* replaced, and the statements after it give the velocity they give with
\* another viscosity.
C26_ViscosityUnused ==
  [][status' = "ok"
       => /\ pc = 3
               => <<velocity_x', velocity_y'>> = Velocity(advect_velocity(Forgotten))
          /\ pc = 4
               => <<velocity_x', velocity_y'>> = Velocity(project_velocity(Rescratched))
          /\ pc = 5
               => <<velocity_x', velocity_y'>> = Velocity(diffuse_dye(Thicker))
          /\ pc = 6
               => <<velocity_x', velocity_y'>> = Velocity(AdvectDyeCells(Thicker))
          /\ pc = 7
               => <<velocity_x', velocity_y'>> = Velocity(set_boundaries(Thicker))]_vars

\* advect_velocity has returned on a grid whose snapshot and whose current
\* velocity are not 0 in the middle.
C26_Witness ==
  /\ pc = 4 /\ status = "ok" /\ width >= 3 /\ height >= 3
  /\ velocity_x_prev[Centre] # Zero /\ velocity_x[Centre] # Zero

Millionth == FDiv(One, FromInt(1000000))

\* Every cell of buffer b is within a relative 1e-6 of the cell of a.
CellsKept(a, b) ==
  \A i \in DOMAIN a : FLe(FAbs(FSub(b[i], a[i])), FMul(Millionth, FAbs(a[i])))

\* The dye of simulation t is, cell by cell, the dye of the state up to the
\* rounding of the rescale factor.
DyeKept(t) ==
  /\ ~t.panicked
  /\ CellsKept(dye_r, t.dye_r) /\ CellsKept(dye_g, t.dye_g)
  /\ CellsKept(dye_b, t.dye_b)

\* Values of dye_diffusion other than the default: none, and a large one.
Diffusions == {Zero, FromInt(10)}

\* There is dye.
HasDye ==
  \E i \in DOMAIN dye_r : dye_r[i] # Zero \/ dye_g[i] # Zero \/ dye_b[i] # Zero

\* When there is dye, step() from the state with dye_diffusion dd keeps it,
\* however the reduction of advect_dye is split.
DyeKeptWith(dd) ==
  HasDye
    => \A t \in {StepToRescale([Sim EXCEPT !.dye_diffusion = dd])} :
         \A depth \in 0..MaxSplit : DyeKept(StepFromRescale(t, depth))

\* C27: with velocity 0 everywhere and all dye two or more cells from the
\* border, step() leaves every cell of dye_r, dye_g and dye_b at its value
\* before the step, up to the rounding of the rescale factor, for every
\* value of dye_diffusion.
C27_RestingDyeKept ==
  /\ [][(call'.op = "step" /\ status' = "ok" /\ StillFluid
           /\ DyeAwayFromBorder)
          => /\ CellsKept(dye_r, dye_r') /\ CellsKept(dye_g, dye_g')
             /\ CellsKept(dye_b, dye_b')]_vars
  /\ []((status = "ok" /\ StillFluid /\ DyeAwayFromBorder)
          => \A dd \in Diffusions : DyeKeptWith(dd))

\* A step() has returned that began with the fluid at rest and with dye in
\* the middle of a grid of at least 5 x 5 and nowhere else.
C27_Witness ==
  /\ Stepped /\ width >= 5 /\ height >= 5
  /\ dye_r_prev[Centre] # Zero
  /\ \A i \in DOMAIN dye_r_prev :
       /\ velocity_x_prev[i] = Zero /\ velocity_y_prev[i] = Zero
       /\ i # Centre
            => dye_r_prev[i] = Zero /\ dye_g_prev[i] = Zero /\ dye_b_prev[i] = Zero

\* Every cell of every buffer is 0.
AllZero ==
  \A b \in 1..Len(Buffers) : \A i \in DOMAIN Buffers[b] : Buffers[b][i] = Zero

\* C28: the all-zero state is a fixed point: new leaves every cell of
\* every buffer 0, and step() from a state in which every cell of every
\* buffer is 0 leaves every cell of every buffer 0 (no rescale divides by a
\* zero total); on a grid of at least 3 x 3 it returns.
C28_ZeroFixedPoint ==
  [][/\ call'.op = "new" => AllZero'
     /\ (call'.op = "step" /\ calls' = calls + 1 /\ AllZero)
          => /\ AllZero'
             /\ (width >= 3 /\ height >= 3) => status' = "ok"]_vars

\* A second step() in a row has returned on a grid with an interior that is
\* all zero.
C28_Witness ==
  /\ Stepped /\ calls = 3 /\ width >= 3 /\ height >= 3 /\ AllZero

\* The calls a frame made on the simulation for its persistent elements,
\* and its step().
ElementCalls(a) ==
  SelectSeq(a.simulation.calls, LAMBDA c : c.by > 0 \/ c.op = "step")

\* What applying an element of each kind can be.
OpsOf(elem) ==
  IF elem.element_type.kind = "DyeSource"
  THEN {"add_dye", "remove_dye", "none"}
  ELSE IF elem.element_type.kind = "ForceSource" THEN {"add_force", "none"}
  ELSE {"attractor"}

\* The frame's last calls are one per element, in list order, then step().
AppliedInOrder(a) ==
  /\ Len(ElementCalls(a)) = Len(a.persistent_elements) + 1
  /\ \A k \in 1..Len(a.persistent_elements) :
       /\ ElementCalls(a)[k].by = k
       /\ ElementCalls(a)[k].op \in OpsOf(a.persistent_elements[k])
  /\ ElementCalls(a)[Len(a.persistent_elements) + 1].op = "step"
  /\ SubSeq(a.simulation.calls,
            Len(a.simulation.calls) - Len(a.persistent_elements),
            Len(a.simulation.calls)) = ElementCalls(a)

\* C29: in a frame of InteractiveApp::update in which paused is false (once
\* the toolbar's pause button has been handled), every persistent element
\* is applied once, in list order, then step() is called once and
\* frame_count grows by 1; in a frame in which paused is true no element is
\* applied, step() is not called and frame_count stays.
C29_FrameLoop ==
  [][(app.updates >= 0 /\ app'.updates = app.updates + 1)
       => /\ ~app'.paused
               => /\ AppliedInOrder(app')
                  /\ app'.frame_count = app.frame_count + 1
          /\ app'.paused
               => /\ ElementCalls(app') = <<>>
                  /\ app'.frame_count = app.frame_count]_vars

\* A frame that was not paused has applied two persistent elements, the
\* second one a dye source, and stepped for the third time.
C29_Witness ==
  /\ app.updates >= 3 /\ ~app.paused /\ app.frame_count = 3
  /\ Len(app.persistent_elements) = 2
  /\ app.simulation.calls[Len(app.simulation.calls) - 1].op = "add_dye"
  /\ app.simulation.calls[Len(app.simulation.calls)].op = "step"

\* C30: in every state of the window the grid is the base size times the
\* resolution scale, and change_resolution with a scale outside 1..=8 or
\* equal to the current one changes nothing.
C30_GridScaled ==
  app.updates >= 0
    => /\ app.simulation.width = app.base_width * app.resolution_scale
       /\ app.simulation.height = app.base_height * app.resolution_scale
       /\ \A scale \in 0..9 :
            (scale < 1 \/ scale > 8 \/ scale = app.resolution_scale)
              => change_resolution(app, scale) = app

====
